---- MODULE Spec2Model ----
(***************************************************************************)
(* Phone extraction engine of the ePAC claim record page                   *)
(* (src/epac/pages/epac_ficha_peritacion_page.py).                         *)
(*                                                                         *)
(* A text is a sequence of characters; a character is a one-character      *)
(* string, except the non-breaking space U+00A0 which is written "NBSP".   *)
(* Python's None is NULL and an exception leaving a call is RAISE; both    *)
(* are one-element sequences so that they compare with texts.              *)
(***************************************************************************)
EXTENDS Integers, Sequences, FiniteSets, TLC

NULL == <<"None">>
RAISE == <<"Raise">>

\* ---------------------------------------------------------------------
\* Characters and string helpers (Python str / re primitives)
\* ---------------------------------------------------------------------
Digits == {"0", "1", "2", "3", "4", "5", "6", "7", "8", "9"}

\* \s of a Unicode pattern, and the characters str.strip() removes
WS == {" ", "\n", "\t", "NBSP"}

\* the character class [\d\s().,\-] of PHONE_CANDIDATE_RE
PhoneClass == Digits \cup WS \cup {"(", ")", ".", ",", "-"}

\* \w of a Unicode pattern, over the alphabet of the model
Lower == {"a", "b", "c", "d", "e", "f", "g", "h", "i", "j", "k", "l", "m",
          "n", "o", "p", "q", "r", "s", "t", "u", "v", "w", "x", "y", "z"}

Upper == {"A", "B", "C", "D", "E", "F", "G", "H", "I", "J", "K", "L", "M",
          "N", "O", "P", "Q", "R", "S", "T", "U", "V", "W", "X", "Y", "Z"}

ToUpper == [c \in Lower |->
    CASE c = "a" -> "A" [] c = "b" -> "B" [] c = "c" -> "C" [] c = "d" -> "D"
      [] c = "e" -> "E" [] c = "f" -> "F" [] c = "g" -> "G" [] c = "h" -> "H"
      [] c = "i" -> "I" [] c = "j" -> "J" [] c = "k" -> "K" [] c = "l" -> "L"
      [] c = "m" -> "M" [] c = "n" -> "N" [] c = "o" -> "O" [] c = "p" -> "P"
      [] c = "q" -> "Q" [] c = "r" -> "R" [] c = "s" -> "S" [] c = "t" -> "T"
      [] c = "u" -> "U" [] c = "v" -> "V" [] c = "w" -> "W" [] c = "x" -> "X"
      [] c = "y" -> "Y" [] c = "z" -> "Z"]

\* case folding of re.IGNORECASE
Fold(c) == IF c \in Lower THEN ToUpper[c] ELSE c

WordChars == Digits \cup Lower \cup Upper \cup {"_"}

SetMin(S) == CHOOSE x \in S : \A y \in S : x <= y
SetMax(S) == CHOOSE x \in S : \A y \in S : x >= y

\* first index >= i of t whose character is not in class (Len(t)+1 if none):
\* where a greedy class* starting at i stops
RECURSIVE RunEnd(_, _, _)
RunEnd(t, i, class) ==
    IF i > Len(t) \/ t[i] \notin class THEN i ELSE RunEnd(t, i + 1, class)

\* last index <= i of t whose character is not in class (0 if none)
RECURSIVE RunStart(_, _, _)
RunStart(t, i, class) ==
    IF i < 1 \/ t[i] \notin class THEN i ELSE RunStart(t, i - 1, class)

\* s[n:] of Python, n counted from 0
DropN(s, n) == SubSeq(s, n + 1, Len(s))

\* s.startswith(p)
StartsWith(s, p) ==
    /\ Len(p) <= Len(s)
    /\ \A k \in 1..Len(p) : s[k] = p[k]

\* s.strip()
Strip(s) ==
    LET first == RunEnd(s, 1, WS)
        last == RunStart(s, Len(s), WS)
    IN IF first > last THEN <<>> ELSE SubSeq(s, first, last)

\* s.replace(U+00A0, " ")
ReplaceNbsp(s) == [i \in 1..Len(s) |-> IF s[i] = "NBSP" THEN " " ELSE s[i]]

\* re.sub(r"\D", "", s)
OnlyDigits(s) == SelectSeq(s, LAMBDA c : c \in Digits)

\* the literal lit occurs in t at index i (1-based); ic = re.IGNORECASE
MatchLit(t, i, lit, ic) ==
    /\ i >= 1
    /\ i + Len(lit) - 1 <= Len(t)
    /\ \A k \in 1..Len(lit) :
          IF ic THEN Fold(t[i + k - 1]) = Fold(lit[k]) ELSE t[i + k - 1] = lit[k]

\* ---------------------------------------------------------------------
\* Candidate tokenizer: PHONE_CANDIDATE_RE = (?:\+|00)?\s*\d[\d\s().,\-]{6,}\d
\* ---------------------------------------------------------------------
MinInner == 6

\* CandFrom whose inner run takes digits only
CandFrom_SoloDigitos(t, j) ==
    LET d == RunEnd(t, j, WS)
    IN IF d > Len(t) \/ t[d] \notin Digits THEN 0
       ELSE LET e == RunEnd(t, d + 1, Digits)
                ends == {q \in (d + 1 + MinInner)..(e - 1) : t[q] \in Digits}
            IN IF ends = {} THEN 0 ELSE SetMax(ends)

\* \s*\d[\d\s().,\-]{6,}\d tried at index j: index of the last character
\* matched, 0 when there is no match. \s* stops at the first non-space, the
\* greedy class run gives back characters down to its last digit.
CandFrom(t, j) ==
    LET d == RunEnd(t, j, WS)
    IN IF d > Len(t) \/ t[d] \notin Digits THEN 0
       ELSE LET e == RunEnd(t, d + 1, PhoneClass)
                ends == {q \in (d + 1 + MinInner)..(e - 1) : t[q] \in Digits}
            IN IF ends = {} THEN 0 ELSE SetMax(ends)

\* the whole pattern tried at index i: the optional prefix is tried first
\* ('+', then '00'), then the pattern without prefix; no match begins with a
\* character that is not '+', a digit or whitespace
CandMatchEnd(t, i) ==
    LET plus == IF t[i] = "+" THEN CandFrom(t, i + 1) ELSE 0
        zeros == IF MatchLit(t, i, <<"0", "0">>, FALSE) THEN CandFrom(t, i + 2) ELSE 0
    IN IF t[i] \notin Digits /\ t[i] \notin WS /\ t[i] # "+" THEN 0
       ELSE IF plus # 0 THEN plus
       ELSE IF zeros # 0 THEN zeros
       ELSE CandFrom(t, i)

\* PHONE_CANDIDATE_RE.finditer(t) from index pos on, starts being the indexes
\* at which the pattern matches: the matches m.group(0), leftmost first, each
\* scan resuming after the previous match
RECURSIVE FindIterFrom(_, _, _)
FindIterFrom(t, starts, pos) ==
    LET rest == {i \in starts : i >= pos}
    IN IF rest = {} THEN <<>>
       ELSE LET i == SetMin(rest)
                e == CandMatchEnd(t, i)
            IN <<SubSeq(t, i, e)>> \o FindIterFrom(t, starts, e + 1)

FindIter(t) == FindIterFrom(t, {i \in 1..Len(t) : CandMatchEnd(t, i) # 0}, 1)

\* FindSpansFrom resuming one character after the start of the previous match
RECURSIVE FindSpansFrom_Solapado(_, _, _)
FindSpansFrom_Solapado(t, starts, pos) ==
    LET rest == {i \in starts : i >= pos}
    IN IF rest = {} THEN <<>>
       ELSE LET i == SetMin(rest)
                e == CandMatchEnd(t, i)
            IN <<<<i, e>>>> \o FindSpansFrom_Solapado(t, starts, i + 1)

\* the same scan giving m.span() of every match: its first and last index,
\* 1-based
RECURSIVE FindSpansFrom(_, _, _)
FindSpansFrom(t, starts, pos) ==
    LET rest == {i \in starts : i >= pos}
    IN IF rest = {} THEN <<>>
       ELSE LET i == SetMin(rest)
                e == CandMatchEnd(t, i)
            IN <<<<i, e>>>> \o FindSpansFrom(t, starts, e + 1)

FindSpans(t) == FindSpansFrom(t, {i \in 1..Len(t) : CandMatchEnd(t, i) # 0}, 1)

\* ---------------------------------------------------------------------
\* Normalizer: _normalizar_telefono
\* ---------------------------------------------------------------------
MinIntl == 8
MaxIntl == 15
NationalLen == 9

\* NormalizarResto without the 8..15 bound on a '+' number
NormalizarResto_SinLimite(s) ==
    IF StartsWith(s, <<"+">>)
    THEN <<"+">> \o OnlyDigits(DropN(s, 1))
    ELSE LET digits0 == OnlyDigits(s)
         IN IF digits0 = <<>> THEN NULL
            ELSE LET digits == IF /\ StartsWith(digits0, <<"0">>)
                                  /\ Len(digits0) = 10
                                  /\ digits0[2] \in {"6", "7", "8", "9"}
                               THEN DropN(digits0, 1) ELSE digits0
                 IN IF /\ StartsWith(digits, <<"3", "4">>)
                       /\ Len(digits) = 11
                       /\ digits[3] \in {"6", "7", "8", "9"}
                    THEN SubSeq(digits, Len(digits) - 8, Len(digits))
                    ELSE IF Len(digits) = NationalLen THEN digits
                    ELSE IF MinIntl <= Len(digits) /\ Len(digits) <= MaxIntl
                    THEN <<"+">> \o digits
                    ELSE NULL

\* NormalizarResto reducing '+34' and 9 digits to the national number
NormalizarResto_Reduce34(s) ==
    IF StartsWith(s, <<"+">>)
    THEN LET p == <<"+">> \o OnlyDigits(DropN(s, 1))
         IN IF StartsWith(p, <<"+", "3", "4">>) /\ Len(p) = 12 THEN DropN(p, 3)
            ELSE IF MinIntl <= Len(p) - 1 /\ Len(p) - 1 <= MaxIntl THEN p ELSE NULL
    ELSE LET digits0 == OnlyDigits(s)
         IN IF digits0 = <<>> THEN NULL
            ELSE LET digits == IF /\ StartsWith(digits0, <<"0">>)
                                  /\ Len(digits0) = 10
                                  /\ digits0[2] \in {"6", "7", "8", "9"}
                               THEN DropN(digits0, 1) ELSE digits0
                 IN IF /\ StartsWith(digits, <<"3", "4">>)
                       /\ Len(digits) = 11
                       /\ digits[3] \in {"6", "7", "8", "9"}
                    THEN SubSeq(digits, Len(digits) - 8, Len(digits))
                    ELSE IF Len(digits) = NationalLen THEN digits
                    ELSE IF MinIntl <= Len(digits) /\ Len(digits) <= MaxIntl
                    THEN <<"+">> \o digits
                    ELSE NULL

\* NormalizarResto without the reduction of a bare 34 and 9 digits
NormalizarResto_Sin34(s) ==
    IF StartsWith(s, <<"+">>)
    THEN LET p == <<"+">> \o OnlyDigits(DropN(s, 1))
         IN IF MinIntl <= Len(p) - 1 /\ Len(p) - 1 <= MaxIntl THEN p ELSE NULL
    ELSE LET digits0 == OnlyDigits(s)
         IN IF digits0 = <<>> THEN NULL
            ELSE LET digits == IF /\ StartsWith(digits0, <<"0">>)
                                  /\ Len(digits0) = 10
                                  /\ digits0[2] \in {"6", "7", "8", "9"}
                               THEN DropN(digits0, 1) ELSE digits0
                 IN IF Len(digits) = NationalLen THEN digits
                    ELSE IF MinIntl <= Len(digits) /\ Len(digits) <= MaxIntl
                    THEN <<"+">> \o digits
                    ELSE NULL

\* NormalizarResto asking 9 digits at least of a number without '+'
NormalizarResto_Min9(s) ==
    IF StartsWith(s, <<"+">>)
    THEN LET p == <<"+">> \o OnlyDigits(DropN(s, 1))
         IN IF MinIntl <= Len(p) - 1 /\ Len(p) - 1 <= MaxIntl THEN p ELSE NULL
    ELSE LET digits0 == OnlyDigits(s)
         IN IF digits0 = <<>> THEN NULL
            ELSE LET digits == IF /\ StartsWith(digits0, <<"0">>)
                                  /\ Len(digits0) = 10
                                  /\ digits0[2] \in {"6", "7", "8", "9"}
                               THEN DropN(digits0, 1) ELSE digits0
                 IN IF /\ StartsWith(digits, <<"3", "4">>)
                       /\ Len(digits) = 11
                       /\ digits[3] \in {"6", "7", "8", "9"}
                    THEN SubSeq(digits, Len(digits) - 8, Len(digits))
                    ELSE IF Len(digits) = NationalLen THEN digits
                    ELSE IF MinIntl < Len(digits) /\ Len(digits) <= MaxIntl
                    THEN <<"+">> \o digits
                    ELSE NULL

\* the tail of the function once s no longer starts with '00'
NormalizarResto(s) ==
    IF StartsWith(s, <<"+">>)
    THEN LET p == <<"+">> \o OnlyDigits(DropN(s, 1))
         IN IF MinIntl <= Len(p) - 1 /\ Len(p) - 1 <= MaxIntl THEN p ELSE NULL
    ELSE LET digits0 == OnlyDigits(s)
         IN IF digits0 = <<>> THEN NULL
            ELSE LET digits == IF /\ StartsWith(digits0, <<"0">>)
                                  /\ Len(digits0) = 10
                                  /\ digits0[2] \in {"6", "7", "8", "9"}
                               THEN DropN(digits0, 1) ELSE digits0
                 IN IF /\ StartsWith(digits, <<"3", "4">>)
                       /\ Len(digits) = 11
                       /\ digits[3] \in {"6", "7", "8", "9"}
                    THEN SubSeq(digits, Len(digits) - 8, Len(digits))
                    ELSE IF Len(digits) = NationalLen THEN digits
                    ELSE IF MinIntl <= Len(digits) /\ Len(digits) <= MaxIntl
                    THEN <<"+">> \o digits
                    ELSE NULL

\* NormalizarTelefono without the landline case of the '00' prefix
NormalizarTelefono_SinFijos(raw) ==
    IF raw = <<>> \/ raw = NULL THEN NULL
    ELSE LET s == Strip(ReplaceNbsp(Strip(raw)))
         IN IF StartsWith(s, <<"0", "0">>)
            THEN LET rest_digits == OnlyDigits(DropN(s, 2))
                 IN IF Len(rest_digits) = NationalLen /\ rest_digits[1] \in {"6", "7"}
                    THEN rest_digits
                    ELSE NormalizarResto(<<"+">> \o rest_digits)
            ELSE NormalizarResto(s)

\* NormalizarTelefono forgetting the '+' in front of the rest of a '00' value
NormalizarTelefono_SinMas(raw) ==
    IF raw = <<>> \/ raw = NULL THEN NULL
    ELSE LET s == Strip(ReplaceNbsp(Strip(raw)))
         IN IF StartsWith(s, <<"0", "0">>)
            THEN LET rest_digits == OnlyDigits(DropN(s, 2))
                 IN IF Len(rest_digits) = NationalLen /\ rest_digits[1] \in {"6", "7"}
                    THEN rest_digits
                    ELSE IF Len(rest_digits) = NationalLen /\ rest_digits[1] \in {"8", "9"}
                    THEN rest_digits
                    ELSE NormalizarResto(rest_digits)
            ELSE NormalizarResto(s)

NormalizarTelefono(raw) ==
    IF raw = <<>> \/ raw = NULL THEN NULL
    ELSE LET s == Strip(ReplaceNbsp(Strip(raw)))
         IN IF StartsWith(s, <<"0", "0">>)
            THEN LET rest_digits == OnlyDigits(DropN(s, 2))
                 IN IF Len(rest_digits) = NationalLen /\ rest_digits[1] \in {"6", "7"}
                    THEN rest_digits
                    ELSE IF Len(rest_digits) = NationalLen /\ rest_digits[1] \in {"8", "9"}
                    THEN rest_digits
                    ELSE NormalizarResto(<<"+">> \o rest_digits)
            ELSE NormalizarResto(s)

\* ---------------------------------------------------------------------
\* Classifier: _es_movil, with the phonenumbers library as an oracle
\* ---------------------------------------------------------------------
\* what the library does with one '+' number: parse raises
\* NumberParseException, some call raises another exception, is_valid_number
\* is false, or number_type is one of the types
MetaOutcomes == {"ParseError", "Error", "Invalid", "MOBILE", "FIXED_LINE_OR_MOBILE", "FIXED_LINE"}

\* EsMovil taking the national landlines (8, 9) for mobiles
EsMovil_Fijos(tel_norm, lib, m) ==
    IF tel_norm = <<>> \/ tel_norm = NULL THEN "False"
    ELSE IF ~StartsWith(tel_norm, <<"+">>)
    THEN IF Len(tel_norm) = 9 /\ tel_norm[1] \in {"6", "7", "8", "9"} THEN "True" ELSE "False"
    ELSE IF lib = "None" THEN "True"
    ELSE CASE m[tel_norm] = "Error" -> "Raise"
           [] m[tel_norm] \in {"MOBILE", "FIXED_LINE_OR_MOBILE"} -> "True"
           [] OTHER -> "False"

\* EsMovil without its except NumberParseException
EsMovil_SinExcept(tel_norm, lib, m) ==
    IF tel_norm = <<>> \/ tel_norm = NULL THEN "False"
    ELSE IF ~StartsWith(tel_norm, <<"+">>)
    THEN IF Len(tel_norm) = 9 /\ tel_norm[1] \in {"6", "7"} THEN "True" ELSE "False"
    ELSE IF lib = "None" THEN "True"
    ELSE CASE m[tel_norm] \in {"ParseError", "Error"} -> "Raise"
           [] m[tel_norm] \in {"MOBILE", "FIXED_LINE_OR_MOBILE"} -> "True"
           [] OTHER -> "False"

\* EsMovil taking only the 6 for the first digit of a national mobile
EsMovil_SoloSeis(tel_norm, lib, m) ==
    IF tel_norm = <<>> \/ tel_norm = NULL THEN "False"
    ELSE IF ~StartsWith(tel_norm, <<"+">>)
    THEN IF Len(tel_norm) = 9 /\ tel_norm[1] = "6" THEN "True" ELSE "False"
    ELSE IF lib = "None" THEN "True"
    ELSE CASE m[tel_norm] = "ParseError" -> "False"
           [] m[tel_norm] = "Error" -> "Raise"
           [] m[tel_norm] = "Invalid" -> "False"
           [] m[tel_norm] \in {"MOBILE", "FIXED_LINE_OR_MOBILE"} -> "True"
           [] OTHER -> "False"

\* EsMovil taking only the type MOBILE
EsMovil_SoloMobile(tel_norm, lib, m) ==
    IF tel_norm = <<>> \/ tel_norm = NULL THEN "False"
    ELSE IF ~StartsWith(tel_norm, <<"+">>)
    THEN IF Len(tel_norm) = 9 /\ tel_norm[1] \in {"6", "7"} THEN "True" ELSE "False"
    ELSE IF lib = "None" THEN "True"
    ELSE CASE m[tel_norm] = "ParseError" -> "False"
           [] m[tel_norm] = "Error" -> "Raise"
           [] m[tel_norm] = "Invalid" -> "False"
           [] m[tel_norm] = "MOBILE" -> "True"
           [] OTHER -> "False"

\* _es_movil(tel_norm) with the module global phonenumbers = lib and the
\* library answering by m: "True", "False" or "Raise"
EsMovil(tel_norm, lib, m) ==
    IF tel_norm = <<>> \/ tel_norm = NULL THEN "False"
    ELSE IF ~StartsWith(tel_norm, <<"+">>)
    THEN IF Len(tel_norm) = 9 /\ tel_norm[1] \in {"6", "7"} THEN "True" ELSE "False"
    ELSE IF lib = "None" THEN "True"
    ELSE CASE m[tel_norm] = "ParseError" -> "False"
           [] m[tel_norm] = "Error" -> "Raise"
           [] m[tel_norm] = "Invalid" -> "False"
           [] m[tel_norm] \in {"MOBILE", "FIXED_LINE_OR_MOBILE"} -> "True"
           [] OTHER -> "False"

\* ExtraerLoop leaving the loop at the first rejected candidate
RECURSIVE ExtraerLoop_Break(_, _, _, _)
ExtraerLoop_Break(cands, k, lib, m) ==
    IF k > Len(cands) THEN NULL
    ELSE LET tel == NormalizarTelefono(cands[k])
         IN IF tel = NULL THEN NULL
            ELSE LET r == EsMovil(tel, lib, m)
                 IN IF r = "Raise" THEN RAISE
                    ELSE IF r = "True" THEN tel
                    ELSE NULL

\* the loop of _extraer_numero_telefono over the matches cands, from the
\* k-th on
RECURSIVE ExtraerLoop(_, _, _, _)
ExtraerLoop(cands, k, lib, m) ==
    IF k > Len(cands) THEN NULL
    ELSE LET tel == NormalizarTelefono(cands[k])
         IN IF tel = NULL THEN ExtraerLoop(cands, k + 1, lib, m)
            ELSE LET r == EsMovil(tel, lib, m)
                 IN IF r = "Raise" THEN RAISE
                    ELSE IF r = "True" THEN tel
                    ELSE ExtraerLoop(cands, k + 1, lib, m)

ExtraerNumeroTelefono(texto, lib, m) ==
    IF texto = <<>> THEN NULL
    ELSE ExtraerLoop(FindIter(texto), 1, lib, m)

\* ---------------------------------------------------------------------
\* Section extractor: labels, CUT_PATTERNS, _buscar_en_seccion,
\* _buscar_campo_telef
\* ---------------------------------------------------------------------
OBSERVACIONES == <<"O", "B", "S", "E", "R", "V", "A", "C", "I", "O", "N", "E", "S", " ", "M", "A", "N", "U", "A", "L", "E", "S", ":">>
DESCRIPCION == <<"D", "E", "S", "C", "R", "I", "P", "C", "I", "O", "N", ":">>
TELEF1 == <<"T", "E", "L", "E", "F", "-", "1", ":">>
TELEF2 == <<"T", "E", "L", "E", "F", "-", "2", ":">>

\* the labels in the order extraer_telefono tries them
Etiquetas == <<OBSERVACIONES, DESCRIPCION, TELEF1, TELEF2>>

MaxSeccion == 400
MinDashes == 10

\* RFind as texto.find(lit): the first occurrence
RFind_Primera(t, lit) ==
    LET occ == {i \in 1..Len(t) : t[i] = lit[1] /\ MatchLit(t, i, lit, FALSE)}
    IN IF occ = {} THEN 0 ELSE SetMin(occ)

\* texto.rfind(lit) for a literal that is not empty: 1-based index of the
\* last occurrence, 0 for Python's -1
RFind(t, lit) ==
    LET occ == {i \in 1..Len(t) : t[i] = lit[1] /\ MatchLit(t, i, lit, FALSE)}
    IN IF occ = {} THEN 0 ELSE SetMax(occ)

\* a whitespace run starting at k that contains a newline: \s*\n matches at k
WsThenNewline(t, k) == \E q \in k..(RunEnd(t, k, WS) - 1) : t[q] = "\n"

\* \n\s*-{10,}\s*\n matches with its start at index i
CutDashesAt(t, i) ==
    /\ t[i] = "\n"
    /\ LET j == RunEnd(t, i + 1, WS)
           k == RunEnd(t, j, {"-"})
       IN k - j >= MinDashes /\ WsThenNewline(t, k)

\* \n\s*SINIESTROS\s*\n (IGNORECASE) matches with its start at index i
CutSiniestrosAt(t, i) ==
    /\ t[i] = "\n"
    /\ LET j == RunEnd(t, i + 1, WS)
       IN /\ MatchLit(t, j, <<"S", "I", "N", "I", "E", "S", "T", "R", "O", "S">>, TRUE)
          /\ WsThenNewline(t, j + 10)

\* \n\s*NUMERO\s+FECHA\s+RESERVA\s+ (IGNORECASE) matches with its start at i
CutNumeroAt(t, i) ==
    /\ t[i] = "\n"
    /\ LET j == RunEnd(t, i + 1, WS)
           f == RunEnd(t, j + 6, WS)
           r == RunEnd(t, f + 5, WS)
       IN /\ MatchLit(t, j, <<"N", "U", "M", "E", "R", "O">>, TRUE)
          /\ f > j + 6
          /\ MatchLit(t, f, <<"F", "E", "C", "H", "A">>, TRUE)
          /\ r > f + 5
          /\ MatchLit(t, r, <<"R", "E", "S", "E", "R", "V", "A">>, TRUE)
          /\ r + 7 <= Len(t)
          /\ t[r + 7] \in WS

\* pat.search(chunk).start() for the three CUT_PATTERNS, as 1-based indexes
CutStarts(t) ==
    LET at(n) == {i \in 1..Len(t) : CASE n = 1 -> CutDashesAt(t, i)
                                      [] n = 2 -> CutSiniestrosAt(t, i)
                                      [] n = 3 -> CutNumeroAt(t, i)}
    IN [n \in 1..3 |-> IF at(n) = {} THEN 0 ELSE SetMin(at(n))]

\* CutLoop keeping the match of the last pattern that matches
RECURSIVE CutLoop_Ultimo(_, _)
CutLoop_Ultimo(starts, n) ==
    IF n = 0 THEN 0
    ELSE IF starts[n] # 0 THEN starts[n] ELSE CutLoop_Ultimo(starts, n - 1)

\* the loop over CUT_PATTERNS: cut_idx after the n first patterns, as a
\* 1-based index, 0 for None
RECURSIVE CutLoop(_, _)
CutLoop(starts, n) ==
    IF n = 0 THEN 0
    ELSE LET cut_idx == CutLoop(starts, n - 1)
         IN IF starts[n] # 0 /\ (cut_idx = 0 \/ starts[n] < cut_idx)
            THEN starts[n] ELSE cut_idx

\* SeccionDe without the test of pos: the -1 of rfind is used as an index
SeccionDe_SinAusente(texto, etiqueta) ==
    LET pos == RFind(texto, etiqueta)
        chunk0 == DropN(texto, pos - 1 + Len(etiqueta))
        cut_idx == CutLoop(CutStarts(chunk0), 3)
        chunk1 == IF cut_idx # 0 THEN SubSeq(chunk0, 1, cut_idx - 1) ELSE chunk0
    IN SubSeq(chunk1, 1, IF Len(chunk1) < MaxSeccion THEN Len(chunk1) ELSE MaxSeccion)

\* the chunk _buscar_en_seccion hands to _extraer_numero_telefono, NULL when
\* rfind finds no label
SeccionDe(texto, etiqueta) ==
    LET pos == RFind(texto, etiqueta)
        chunk0 == DropN(texto, pos - 1 + Len(etiqueta))
        cut_idx == CutLoop(CutStarts(chunk0), 3)
        chunk1 == IF cut_idx # 0 THEN SubSeq(chunk0, 1, cut_idx - 1) ELSE chunk0
    IN IF pos = 0 THEN NULL
       ELSE SubSeq(chunk1, 1, IF Len(chunk1) < MaxSeccion THEN Len(chunk1) ELSE MaxSeccion)

\* ExceptNone without the except clause: the exception goes on
ExceptNone_Propaga(r) == r

\* try/except Exception of _buscar_en_seccion, _buscar_campo_telef and
\* extraer_telefono: an exception gives None
ExceptNone(r) == IF r = RAISE THEN NULL ELSE r

\* BuscarEnSeccion that tokenizes all the text after the label
BuscarEnSeccion_TextoEntero(texto, etiqueta, lib, m) ==
    LET pos == RFind(texto, etiqueta)
    IN IF pos = 0 THEN NULL
       ELSE ExceptNone(ExtraerNumeroTelefono(DropN(texto, pos - 1 + Len(etiqueta)), lib, m))

\* _buscar_en_seccion: the number of the chunk, None when the label is
\* missing or the lookup raised
BuscarEnSeccion(texto, etiqueta, lib, m) ==
    LET chunk == SeccionDe(texto, etiqueta)
    IN IF chunk = NULL THEN NULL
       ELSE ExceptNone(ExtraerNumeroTelefono(chunk, lib, m))

\* campo.replace(":", "").strip()
CampoBase(campo) == Strip(SelectSeq(campo, LAMBDA c : c # ":"))

\* <campo_base>\s*:?\s*([+0-9][0-9\s().,\-]{6,}) matched with the label at
\* index i: the index of the first character of group 1, 0 when no match
CampoValorAt(t, base, i) ==
    IF Fold(t[i]) # Fold(base[1]) THEN 0
    ELSE IF ~MatchLit(t, i, base, TRUE) THEN 0
    ELSE LET j == RunEnd(t, i + Len(base), WS)
             k == IF j <= Len(t) /\ t[j] = ":" THEN RunEnd(t, j + 1, WS) ELSE j
         IN IF /\ k <= Len(t)
               /\ t[k] \in Digits \cup {"+"}
               /\ RunEnd(t, k + 1, PhoneClass) - (k + 1) >= MinInner
            THEN k ELSE 0

\* re.split(r"\bHORA\b", valor, flags=re.IGNORECASE)[0]
SplitHora(valor) ==
    LET isWord(i) == i >= 1 /\ i <= Len(valor) /\ valor[i] \in WordChars
        hits == {i \in 1..Len(valor) :
                    /\ MatchLit(valor, i, <<"H", "O", "R", "A">>, TRUE)
                    /\ ~isWord(i - 1)
                    /\ ~isWord(i + 4)}
    IN IF hits = {} THEN valor ELSE SubSeq(valor, 1, SetMin(hits) - 1)

\* ValorCampo taking the last occurrence of the field
ValorCampo_Ultima(texto, campo) ==
    LET base == CampoBase(campo)
        hits == {i \in 1..Len(texto) : CampoValorAt(texto, base, i) # 0}
    IN IF hits = {} THEN NULL
       ELSE LET k == CampoValorAt(texto, base, SetMax(hits))
            IN Strip(SplitHora(SubSeq(texto, k, RunEnd(texto, k + 1, PhoneClass) - 1)))

\* the value _buscar_campo_telef hands to _extraer_numero_telefono, NULL
\* when re.search finds nothing
ValorCampo(texto, campo) ==
    LET base == CampoBase(campo)
        hits == {i \in 1..Len(texto) : CampoValorAt(texto, base, i) # 0}
    IN IF hits = {} THEN NULL
       ELSE LET k == CampoValorAt(texto, base, SetMin(hits))
            IN Strip(SplitHora(SubSeq(texto, k, RunEnd(texto, k + 1, PhoneClass) - 1)))

\* BuscarCampoTelef that normalizes the value as a whole, without the
\* tokenizer; a number the library has not been asked about is rejected
BuscarCampoTelef_Directo(texto, campo, lib, m) ==
    LET valor == ValorCampo(texto, campo)
        tel == NormalizarTelefono(valor)
    IN IF valor = NULL \/ valor = <<>> \/ tel = NULL THEN NULL
       ELSE IF tel[1] = "+" /\ tel \notin DOMAIN m THEN NULL
       ELSE LET r == EsMovil(tel, lib, m)
            IN IF r = "True" THEN tel ELSE NULL

BuscarCampoTelef(texto, campo, lib, m) ==
    LET valor == ValorCampo(texto, campo)
    IN IF valor = NULL THEN NULL
       ELSE ExceptNone(ExtraerNumeroTelefono(valor, lib, m))

\* ---------------------------------------------------------------------
\* Document texts the model runs on
\* ---------------------------------------------------------------------
NOTRIED == <<"NotTried">>

MaxEntradas == 2
MaxPartes == 2

Movil1 == <<" ", "6", "1", "2", "3", "4", "5", "6", "7", "8">>
Movil2 == <<" ", "7", "1", "1", "2", "2", "2", "3", "3", "3">>
Fijo == <<" ", "9", "1", "2", "3", "4", "5", "6", "7", "8">>
Corto == <<" ", "1", "2", "-", "3", "4", "-", "5", "6", "-", "7">>
Intl1 == <<" ", "+", "3", "3", "6", "1", "2", "3", "4", "5", "6", "7", "8">>
Sep == <<" ", "y">>
CutDashes == <<"\n", "-", "-", "-", "-", "-", "-", "-", "-", "-", "-", "\n">>
CutSiniestros == <<"\n", "S", "I", "N", "I", "E", "S", "T", "R", "O", "S", "\n">>
CutNumero == <<"\n", "N", "U", "M", "E", "R", "O", " ", "F", "E", "C", "H", "A", " ", "R", "E", "S", "E", "R", "V", "A", " ">>
Relleno == [i \in 1..390 |-> "x"]

\* what can follow a label: nothing, one number, or several numbers of
\* which the first ones are rejected
Cuerpos == {
    <<>>,
    Movil1,
    Fijo,
    Corto \o Sep \o Fijo \o Sep \o Movil2,
    Intl1 \o Sep \o Movil1 }

RECURSIVE Concat(_)
Concat(ss) == IF ss = <<>> THEN <<>> ELSE Head(ss) \o Concat(Tail(ss))

SeqsUpTo(S, n) == UNION {[1..k -> S] : k \in 0..n}

\* records made of labelled entries, the labels in any order and repeated
Entradas == {Etiquetas[k] \o c : k \in 1..4, c \in Cuerpos}
FichasEntradas == {Concat(es) : es \in SeqsUpTo(Entradas, MaxEntradas)}

\* free-text sections made of numbers, cut delimiters and long filler text
Partes == {Movil1, Fijo, CutDashes, CutSiniestros, CutNumero, Relleno, Sep}
FichasSeccion == {Etiquetas[k] \o Concat(ps) \o Movil2 :
                     k \in 1..2, ps \in SeqsUpTo(Partes, MaxPartes)}

Fichas == FichasEntradas \cup FichasSeccion

\* ---------------------------------------------------------------------
\* State: one load of the module and one call of extraer_telefono
\* ---------------------------------------------------------------------
VARIABLES
    pc,             \* position: "import", "import_error", "ready", "obs",
                    \* "desc", "telef1", "telef2", "done"
    installed,      \* the phonenumbers package is installed
    phonenumbers,   \* the module global: "unbound" or "module"
    ficha,          \* the text the page holds
    texto,          \* texto_completo
    meta,           \* what the library has answered, per '+' number
    res,            \* what each label's lookup returned
    seccion,        \* the text each lookup handed to _extraer_numero_telefono
    telefono,       \* the value extraer_telefono returns
    raw,            \* a value handed to _normalizar_telefono
    norm,           \* _normalizar_telefono(raw)
    renorm,         \* _normalizar_telefono(norm)
    movil,          \* _es_movil(norm): "True", "False" or "Raise"
    llamadas,       \* the calls of the engine that run side by side: the
                    \* locals of each one
    current,        \* compute_contact_changes: the rows of the current report
    previous,       \* the rows of the previous report
    cambios,        \* the rows compute_contact_changes returns
    pending,        \* _merge_pending_notes: the notes that were pending
    new_notes,      \* the new notes
    key_fields,     \* the fields that make the key of a note
    merged,         \* the list _merge_pending_notes returns
    skip_generali,  \* main of run_full_pipeline: args.skip_generali
    lote,           \* the new notes of each insurer (notas_generali, ...)
    archivo,        \* the pending file of each insurer (data/pending_*.jsonl)
    cola,           \* the merged queue of each insurer (pending_generali, ...)
    portal,         \* a page of the insurer was opened (ama_page, epac_page)
    enviadas,       \* the notes the workflow of each insurer has submitted
    resultado,      \* how the workflow of each insurer ended
    siniestros      \* the calls of procesar_siniestro of one run, in order

vars == <<pc, installed, phonenumbers, ficha, texto, meta, res, seccion, telefono,
          raw, norm, renorm, movil, llamadas, current, previous, cambios,
          pending, new_notes, key_fields, merged,
          skip_generali, lote, archivo, cola, portal, enviadas, resultado,
          siniestros>>

\* the state of one call of the engine, but for its position
motor == <<installed, phonenumbers, ficha, texto, meta, res, seccion, telefono,
           raw, norm, renorm, movil>>

\* the state of processing/diff.py
diff == <<current, previous, cambios>>

\* the state of _merge_pending_notes
merge == <<pending, new_notes, key_fields, merged>>

\* the state of main of run_full_pipeline from the pending notes on
pipeline == <<skip_generali, lote, archivo, cola, portal, enviadas, resultado>>

\* the state of the programs other than the single call of extraer_telefono
otros == <<llamadas, diff, merge, pipeline, siniestros>>

DiffParado ==
    /\ current = <<>>
    /\ previous = <<>>
    /\ cambios = <<>>

MergeParado ==
    /\ pending = <<>>
    /\ new_notes = <<>>
    /\ key_fields = <<>>
    /\ merged = <<>>

PipelineParado ==
    /\ skip_generali = FALSE
    /\ lote = <<>>
    /\ archivo = <<>>
    /\ cola = <<>>
    /\ portal = <<>>
    /\ enviadas = <<>>
    /\ resultado = <<>>

\* none of them has started
Reposo ==
    /\ llamadas = <<>>
    /\ DiffParado
    /\ MergeParado
    /\ PipelineParado
    /\ siniestros = <<>>

\* no call of the engine is under way
MotorParado ==
    /\ installed = TRUE
    /\ phonenumbers = "module"
    /\ ficha = <<>>
    /\ texto = NOTRIED
    /\ meta = [n \in {} |-> "Invalid"]
    /\ res = [k \in 1..4 |-> NOTRIED]
    /\ seccion = [k \in 1..4 |-> NOTRIED]
    /\ telefono = NOTRIED
    /\ raw = NOTRIED
    /\ norm = NOTRIED
    /\ renorm = NOTRIED
    /\ movil = NOTRIED

extraccion == <<installed, phonenumbers, ficha, texto, meta, res, seccion, telefono>>

Init ==
    /\ pc = "import"
    /\ installed \in BOOLEAN
    /\ phonenumbers = "unbound"
    /\ ficha \in Fichas
    /\ texto = NOTRIED
    /\ meta = [n \in {} |-> "Invalid"]
    /\ res = [k \in 1..4 |-> NOTRIED]
    /\ seccion = [k \in 1..4 |-> NOTRIED]
    /\ telefono = NOTRIED
    /\ raw = NOTRIED
    /\ norm = NOTRIED
    /\ renorm = NOTRIED
    /\ movil = NOTRIED
    /\ Reposo

\* import phonenumbers at module load: ImportError when it is not installed
ImportModule ==
    /\ pc = "import"
    /\ IF installed
       THEN phonenumbers' = "module" /\ pc' = "ready"
       ELSE phonenumbers' = "unbound" /\ pc' = "import_error"
    /\ UNCHANGED <<installed, ficha, texto, meta, res, seccion, telefono>>
    /\ UNCHANGED <<raw, norm, renorm, movil>>
    /\ UNCHANGED otros

\* _obtener_texto_ficha: the stripped text, "" when the frame is missing or
\* a call fails
ObtenerTextoFicha(f, ok) == IF ok THEN Strip(f) ELSE <<>>

\* extraer_telefono up to the first lookup
ObtenerTexto ==
    /\ pc = "ready"
    /\ \E ok \in BOOLEAN :
          /\ texto' = ObtenerTextoFicha(ficha, ok)
          /\ IF texto' = <<>>
             THEN telefono' = NULL /\ pc' = "done"
             ELSE telefono' = telefono /\ pc' = "obs"
    /\ UNCHANGED <<installed, phonenumbers, ficha, meta, res, seccion>>
    /\ UNCHANGED <<raw, norm, renorm, movil>>
    /\ UNCHANGED otros

\* the '+' numbers of a text the classifier can be asked about
IntlDe(chunk) ==
    IF chunk = NULL THEN {}
    ELSE LET cands == FindIter(chunk)
             nums == {NormalizarTelefono(cands[i]) : i \in 1..Len(cands)}
         IN {n \in nums : n # NULL /\ n[1] = "+"}

\* the answers of the library once it has been asked about the numbers of
\* chunk: those it gave before, and any answer for a new number
Oraculos(chunk, m) == {ext @@ m : ext \in [IntlDe(chunk) \ DOMAIN m -> MetaOutcomes]}

\* Resultado without the return after a lookup that found a number
Resultado_SinRetorno(k, chunk, r, m, next) ==
    /\ meta' = m
    /\ res' = [res EXCEPT ![k] = r]
    /\ seccion' = [seccion EXCEPT ![k] = chunk]
    /\ telefono' = IF r # NULL /\ r # RAISE /\ r # <<>> THEN r
                   ELSE IF next = "done" /\ telefono = NOTRIED THEN NULL
                   ELSE telefono
    /\ pc' = next
    /\ UNCHANGED <<installed, phonenumbers, ficha, texto>>
    /\ UNCHANGED <<raw, norm, renorm, movil>>
    /\ UNCHANGED otros

\* the test after the k-th lookup returned r; an exception that leaves the
\* lookup ends the call in the outer except
Resultado(k, chunk, r, m, next) ==
    /\ meta' = m
    /\ res' = [res EXCEPT ![k] = r]
    /\ seccion' = [seccion EXCEPT ![k] = chunk]
    /\ IF r = RAISE
       THEN telefono' = ExceptNone(r) /\ pc' = "done"
       ELSE IF r # NULL /\ r # <<>>
       THEN telefono' = r /\ pc' = "done"
       ELSE IF next = "done"
       THEN telefono' = NULL /\ pc' = "done"
       ELSE telefono' = telefono /\ pc' = next
    /\ UNCHANGED <<installed, phonenumbers, ficha, texto>>
    /\ UNCHANGED <<raw, norm, renorm, movil>>
    /\ UNCHANGED otros

BuscarObservaciones ==
    /\ pc = "obs"
    /\ LET chunk == SeccionDe(texto, OBSERVACIONES)
       IN \E m \in Oraculos(chunk, meta) :
             Resultado(1, chunk, BuscarEnSeccion(texto, OBSERVACIONES, phonenumbers, m), m, "desc")

BuscarDescripcion ==
    /\ pc = "desc"
    /\ LET chunk == SeccionDe(texto, DESCRIPCION)
       IN \E m \in Oraculos(chunk, meta) :
             Resultado(2, chunk, BuscarEnSeccion(texto, DESCRIPCION, phonenumbers, m), m, "telef1")

BuscarTelef1 ==
    /\ pc = "telef1"
    /\ LET valor == ValorCampo(texto, TELEF1)
       IN \E m \in Oraculos(valor, meta) :
             Resultado(3, valor, BuscarCampoTelef(texto, TELEF1, phonenumbers, m), m, "telef2")

BuscarTelef2 ==
    /\ pc = "telef2"
    /\ LET valor == ValorCampo(texto, TELEF2)
       IN \E m \in Oraculos(valor, meta) :
             Resultado(4, valor, BuscarCampoTelef(texto, TELEF2, phonenumbers, m), m, "done")

Next ==
    \/ ImportModule
    \/ ObtenerTexto
    \/ BuscarObservaciones
    \/ BuscarDescripcion
    \/ BuscarTelef1
    \/ BuscarTelef2

Spec == Init /\ [][Next]_vars

\* ---------------------------------------------------------------------
\* extraer_telefono on records made of fields: the label with or without
\* its colon, in upper or lower case, followed by a value or by none
\* ---------------------------------------------------------------------
MaxCampos == 2

Telef1Min == <<"t", "e", "l", "e", "f", "-", "1">>
Ocho == <<" ", "9", "1", "2", "3", "4", "5", "6", "7">>
SinValor == <<" ", "x">>

\* the record "TELEF-2: 91234567": a field that holds 8 digits
Escenario2 == TELEF2 \o Ocho

\* a note that names a section without the colon of its label
Nota == SubSeq(DESCRIPCION, 1, Len(DESCRIPCION) - 1) \o Movil1

\* a field whose value is written "+(34) 612345678"
MasParen == <<" ", "+", "(", "3", "4", ")", " ", "6", "1", "2", "3", "4", "5", "6", "7", "8">>

EntradasCampo ==
    {l \o v : l \in {TELEF1, TELEF2, Telef1Min}, v \in {Movil1, Fijo, Ocho, Intl1, SinValor}}
        \cup {Nota, TELEF1 \o MasParen}
FichasCampos == {Concat(es) : es \in SeqsUpTo(EntradasCampo, MaxCampos)}

InitCampos ==
    /\ pc = "import"
    /\ installed \in BOOLEAN
    /\ phonenumbers = "unbound"
    /\ ficha \in FichasCampos
    /\ texto = NOTRIED
    /\ meta = [n \in {} |-> "Invalid"]
    /\ res = [k \in 1..4 |-> NOTRIED]
    /\ seccion = [k \in 1..4 |-> NOTRIED]
    /\ telefono = NOTRIED
    /\ raw = NOTRIED
    /\ norm = NOTRIED
    /\ renorm = NOTRIED
    /\ movil = NOTRIED
    /\ Reposo

SpecCampos == InitCampos /\ [][Next]_vars

\* ---------------------------------------------------------------------
\* extraer_telefono on free-text sections in which numbers stand next to
\* each other, apart by separators only, and near the cap of the section
\* ---------------------------------------------------------------------
MaxTrozos == 2

Puntos == <<".", ",", "-", "(", ")">>

\* filler that leaves room for nine more characters under the cap
Largo == [i \in 1..(MaxSeccion - 9) |-> "x"]

Trozos == {Movil1, Fijo, Puntos, CutDashes, Sep, Largo}
FichasTrozos == {Etiquetas[k] \o Concat(ps) \o Movil2 :
                    k \in 1..2, ps \in SeqsUpTo(Trozos, MaxTrozos)}

InitTrozos ==
    /\ pc = "import"
    /\ installed \in BOOLEAN
    /\ phonenumbers = "unbound"
    /\ ficha \in FichasTrozos
    /\ texto = NOTRIED
    /\ meta = [n \in {} |-> "Invalid"]
    /\ res = [k \in 1..4 |-> NOTRIED]
    /\ seccion = [k \in 1..4 |-> NOTRIED]
    /\ telefono = NOTRIED
    /\ raw = NOTRIED
    /\ norm = NOTRIED
    /\ renorm = NOTRIED
    /\ movil = NOTRIED
    /\ Reposo

SpecTrozos == InitTrozos /\ [][Next]_vars

\* ---------------------------------------------------------------------
\* _normalizar_telefono on its own: raw values made of a prefix, a run of
\* digits with separators inside, and a suffix
\* ---------------------------------------------------------------------
MaxDigitos == 16

Prefijos == {
    <<>>, <<"+">>, <<"0", "0">>, <<"0">>, <<"3", "4">>, <<"+", "3", "4">>,
    <<"0", "0", "3", "4">>, <<"0", " ", "0">>, <<" ", "(", "0", ")">>, <<"NBSP", "0", "0">> }
Primeros == {"0", "1", "6", "7", "8", "9"}
Medios == {<<>>, <<" ">>, <<".", "-">>}
Sufijos == {<<>>, <<"NBSP">>}
Ciclo == <<"1", "2", "3", "4", "5", "6", "7", "8", "9", "0">>

\* n digits, the first one d, with mid after the third
DigitosDe(d, n, mid) ==
    LET ds == [i \in 1..n |-> IF i = 1 THEN d ELSE Ciclo[((i - 2) % 10) + 1]]
    IN IF n <= 3 THEN ds ELSE SubSeq(ds, 1, 3) \o mid \o SubSeq(ds, 4, n)

Raws == {pre \o DigitosDe(d, n, mid) \o suf :
            pre \in Prefijos, d \in Primeros, n \in 0..MaxDigitos,
            mid \in Medios, suf \in Sufijos}

InitNorm ==
    /\ pc = "norm"
    /\ installed = TRUE
    /\ phonenumbers = "module"
    /\ ficha = <<>>
    /\ texto = NOTRIED
    /\ meta = [n \in {} |-> "Invalid"]
    /\ res = [k \in 1..4 |-> NOTRIED]
    /\ seccion = [k \in 1..4 |-> NOTRIED]
    /\ telefono = NOTRIED
    /\ raw \in Raws
    /\ norm = NOTRIED
    /\ renorm = NOTRIED
    /\ movil = NOTRIED
    /\ Reposo

\* tel = self._normalizar_telefono(raw)
Normalizar ==
    /\ pc = "norm"
    /\ norm' = NormalizarTelefono(raw)
    /\ pc' = "normalized"
    /\ UNCHANGED <<raw, renorm, movil>>
    /\ UNCHANGED extraccion
    /\ UNCHANGED otros

\* the result normalized again
Renormalizar ==
    /\ pc = "normalized"
    /\ renorm' = NormalizarTelefono(norm)
    /\ pc' = "renormalized"
    /\ UNCHANGED <<raw, norm, movil>>
    /\ UNCHANGED extraccion
    /\ UNCHANGED otros

\* if self._es_movil(tel), for a tel that is not None; the library is asked
\* about a '+' number only
Clasificar ==
    /\ pc = "normalized"
    /\ norm # NULL
    /\ LET ask == IF norm[1] = "+" THEN {norm} \ DOMAIN meta ELSE {}
       IN \E ext \in [ask -> MetaOutcomes] :
             /\ meta' = ext @@ meta
             /\ movil' = EsMovil(norm, phonenumbers, ext @@ meta)
    /\ pc' = "classified"
    /\ UNCHANGED <<raw, norm, renorm>>
    /\ UNCHANGED <<installed, phonenumbers, ficha, texto, res, seccion, telefono>>
    /\ UNCHANGED otros

NextNorm == Normalizar \/ Renormalizar \/ Clasificar

SpecNorm == InitNorm /\ [][NextNorm]_vars

\* ---------------------------------------------------------------------
\* Several calls of the lookups side by side, each on its own text; they
\* share the module global and the library
\* ---------------------------------------------------------------------
MaxLlamadas == 2
Llamadas == 1..MaxLlamadas

TextosLlamada == {
    OBSERVACIONES \o Movil1,
    OBSERVACIONES \o Fijo \o TELEF2 \o Movil2,
    DESCRIPCION \o Intl1 \o Sep \o Movil1,
    TELEF1 \o Intl1 }

\* TextoDe when the text is kept in one place for all the calls
TextoDe_Compartido(ll, p) == ll[1].texto

\* the text a call works on: its own argument
TextoDe(ll, p) == ll[p].texto

\* the k-th lookup on a text, and the text it hands to the tokenizer
Lookup(k, t, lib, m) ==
    IF k <= 2 THEN BuscarEnSeccion(t, Etiquetas[k], lib, m)
    ELSE BuscarCampoTelef(t, Etiquetas[k], lib, m)

TextoLookup(k, t) ==
    IF k <= 2 THEN SeccionDe(t, Etiquetas[k]) ELSE ValorCampo(t, Etiquetas[k])

\* the four lookups in a row on one text: the first one that gives a number
RECURSIVE ExtraerDesde(_, _, _, _)
ExtraerDesde(k, t, lib, m) ==
    IF k > 4 THEN NULL
    ELSE LET r == Lookup(k, t, lib, m)
         IN IF r # NULL /\ r # <<>> THEN r ELSE ExtraerDesde(k + 1, t, lib, m)

InitLlamadas ==
    /\ pc = "llamadas"
    /\ MotorParado
    /\ DiffParado
    /\ MergeParado
    /\ PipelineParado
    /\ siniestros = <<>>
    /\ llamadas \in [Llamadas -> {[sig |-> 1, texto |-> t,
                                    res |-> [k \in 1..4 |-> NOTRIED],
                                    telefono |-> NOTRIED] : t \in TextosLlamada}]

\* the call p runs its next lookup (sig is the index of the label, 5 once
\* the call has returned) and returns when it gives a number or was the last
PasoLlamada(p) ==
    /\ pc = "llamadas"
    /\ llamadas[p].sig <= 4
    /\ LET k == llamadas[p].sig
           t == TextoDe(llamadas, p)
       IN \E m \in Oraculos(TextoLookup(k, t), meta) :
             LET r == Lookup(k, t, phonenumbers, m)
                 fin == (r # NULL /\ r # <<>>) \/ k = 4
             IN /\ meta' = m
                /\ llamadas' = [llamadas EXCEPT ![p] =
                       [sig |-> IF fin THEN 5 ELSE k + 1,
                        texto |-> llamadas[p].texto,
                        res |-> [llamadas[p].res EXCEPT ![k] = r],
                        telefono |-> IF r # NULL /\ r # <<>> THEN r
                                     ELSE IF k = 4 THEN NULL
                                     ELSE llamadas[p].telefono]]
    /\ UNCHANGED <<pc, installed, phonenumbers, ficha, texto, res, seccion, telefono>>
    /\ UNCHANGED <<raw, norm, renorm, movil>>
    /\ UNCHANGED <<diff, merge, pipeline, siniestros>>

NextLlamadas == \E p \in Llamadas : PasoLlamada(p)

SpecLlamadas == InitLlamadas /\ [][NextLlamadas]_vars

\* ---------------------------------------------------------------------
\* processing/diff.py: compute_contact_changes on two reports. A row holds
\* codigo, contacto and visita as parse_report gives them (strings, "" for
\* an empty cell) and marca, the flag the function sets on it.
\* ---------------------------------------------------------------------
MaxFilas == 2

Fila(c, k, v) == [codigo |-> c, contacto |-> k, visita |-> v, marca |-> "ninguna"]

FilasActuales == {
    Fila("A", "SI", ""), Fila("A", "SI", "v1"), Fila("A", "NO", "v1"),
    Fila("", "SI", "v1"), Fila("B", "SI", "") }

FilasPrevias == {
    Fila("A", "NO", ""), Fila("A", "SI", ""), Fila("A", "SI", "v1"),
    Fila("A", "SI", "v2"), Fila("A", "", "") }

\* previous_by_code = {row.get("codigo"): row for row in previous}: the last
\* row of each codigo
PreviousByCode(prev) ==
    [c \in {prev[i].codigo : i \in 1..Len(prev)} |->
        prev[SetMax({i \in 1..Len(prev) : prev[i].codigo = c})]]

\* MarcaDe taking any previous contacto other than SI for a new contact
MarcaDe_NoEraSi(row, pbc) ==
    IF row.codigo = "" THEN "fuera"
    ELSE IF row.codigo \notin DOMAIN pbc
    THEN IF row.contacto = "SI" THEN row.marca ELSE "fuera"
    ELSE LET previo == pbc[row.codigo]
         IN IF previo.contacto # "SI" /\ row.contacto = "SI" THEN "cambio_contacto"
            ELSE IF row.contacto = "SI" /\ row.visita # previo.visita /\ row.visita # ""
            THEN "cambio_visita"
            ELSE "fuera"

\* one turn of the loop of compute_contact_changes: "fuera" when the row is
\* not appended, else the flag the appended row carries
MarcaDe(row, pbc) ==
    IF row.codigo = "" THEN "fuera"
    ELSE IF row.codigo \notin DOMAIN pbc
    THEN IF row.contacto = "SI" THEN row.marca ELSE "fuera"
    ELSE LET previo == pbc[row.codigo]
         IN IF previo.contacto = "NO" /\ row.contacto = "SI" THEN "cambio_contacto"
            ELSE IF row.contacto = "SI" /\ row.visita # previo.visita /\ row.visita # ""
            THEN "cambio_visita"
            ELSE "fuera"

\* the rows of current after the call: the appended ones carry their flag
Marcadas(cur, prev) ==
    LET pbc == PreviousByCode(prev)
    IN [i \in 1..Len(cur) |->
          IF MarcaDe(cur[i], pbc) = "fuera" THEN cur[i]
          ELSE [cur[i] EXCEPT !.marca = MarcaDe(cur[i], pbc)]]

\* compute_contact_changes(current, previous)
ComputeContactChanges(cur, prev) ==
    LET pbc == PreviousByCode(prev)
        idx == SelectSeq([i \in 1..Len(cur) |-> i],
                         LAMBDA i : MarcaDe(cur[i], pbc) # "fuera")
    IN [j \in 1..Len(idx) |-> Marcadas(cur, prev)[idx[j]]]

InitDiff ==
    /\ pc = "diff"
    /\ MotorParado
    /\ llamadas = <<>>
    /\ current \in SeqsUpTo(FilasActuales, MaxFilas)
    /\ previous \in SeqsUpTo(FilasPrevias, MaxFilas)
    /\ cambios = <<>>
    /\ MergeParado
    /\ PipelineParado
    /\ siniestros = <<>>

\* cambios = compute_contact_changes(current, previous); the rows are the
\* objects of current, so the flags show in current too
CompararReportes ==
    /\ pc = "diff"
    /\ cambios' = ComputeContactChanges(current, previous)
    /\ current' = Marcadas(current, previous)
    /\ pc' = "compared"
    /\ UNCHANGED previous
    /\ UNCHANGED motor
    /\ UNCHANGED <<llamadas, merge, pipeline, siniestros>>

NextDiff == CompararReportes

SpecDiff == InitDiff /\ [][NextDiff]_vars

\* ---------------------------------------------------------------------
\* scripts/run_full_pipeline.py: _merge_pending_notes. A note holds codigo
\* and texto; the codigo "ausente" stands for a note without that field.
\* ---------------------------------------------------------------------
MaxNotas == 2

NotaDe(c, t) == [codigo |-> c, texto |-> t]

NotasNuevas == {NotaDe("1", "n1"), NotaDe("1", "n2"), NotaDe("2", "n1"), NotaDe("ausente", "n1")}
NotasPendientes == {NotaDe("1", "p1"), NotaDe("2", "p1"), NotaDe("2", "p2"), NotaDe("", "p1")}
CamposClave == {<<"codigo">>, <<"codigo", "texto">>}

\* str(nota.get(field, ""))
CampoDe(nota, field) ==
    IF field = "codigo" THEN (IF nota.codigo = "ausente" THEN "" ELSE nota.codigo)
    ELSE nota.texto

\* key = tuple(str(nota.get(field, "")) for field in key_fields)
Clave(nota, kf) == [i \in 1..Len(kf) |-> CampoDe(nota, kf[i])]

\* the loop of _merge_pending_notes over notas, from the i-th on, with the
\* keys of seen
RECURSIVE MergeLoop(_, _, _, _)
MergeLoop(notas, i, seen, kf) ==
    IF i > Len(notas) THEN <<>>
    ELSE IF Clave(notas[i], kf) \in seen THEN MergeLoop(notas, i + 1, seen, kf)
    ELSE <<notas[i]>> \o MergeLoop(notas, i + 1, seen \cup {Clave(notas[i], kf)}, kf)

\* MergePendingNotes going through the pending notes first
MergePendingNotes_PendientesPrimero(pend, nuevas, kf) == MergeLoop(pend \o nuevas, 1, {}, kf)

\* _merge_pending_notes(pending, new_notes, key_fields)
MergePendingNotes(pend, nuevas, kf) == MergeLoop(nuevas \o pend, 1, {}, kf)

InitMerge ==
    /\ pc = "merge"
    /\ MotorParado
    /\ llamadas = <<>>
    /\ DiffParado
    /\ pending \in SeqsUpTo(NotasPendientes, MaxNotas)
    /\ new_notes \in SeqsUpTo(NotasNuevas, MaxNotas)
    /\ key_fields \in CamposClave
    /\ merged = <<>>
    /\ PipelineParado
    /\ siniestros = <<>>

\* merged = _merge_pending_notes(pending, new_notes, key_fields)
MezclarNotas ==
    /\ pc = "merge"
    /\ merged' = MergePendingNotes(pending, new_notes, key_fields)
    /\ pc' = "merged"
    /\ UNCHANGED <<pending, new_notes, key_fields>>
    /\ UNCHANGED motor
    /\ UNCHANGED <<llamadas, diff, pipeline, siniestros>>

NextMerge == MezclarNotas

SpecMerge == InitMerge /\ [][NextMerge]_vars

\* ---------------------------------------------------------------------
\* scripts/run_full_pipeline.py: main from the pending notes on (lines 533
\* to 653). A file is a record: whether it exists and the notes it holds.
\* ---------------------------------------------------------------------
MaxLote == 2

Aseguradoras == {"generali", "ama", "allianz"}

Codigos == <<"1", "2", "3", "4">>

\* the batches of new notes of one run
Lotes == {[i \in 1..n |-> NotaDe(Codigos[i], "n")] : n \in 0..MaxLote}

SinArchivo == [existe |-> FALSE, notas |-> <<>>]
ArchivoCon(ns) == [existe |-> TRUE, notas |-> ns]

\* _load_jsonl(path): no file gives []
LoadJsonl(f) == IF f.existe THEN f.notas ELSE <<>>

\* _merge_and_persist_pending(path, new_notes, key_fields): the queue it
\* returns and the file it leaves
MergeAndPersistPending(f, nuevas, kf) ==
    LET m == MergePendingNotes(LoadJsonl(f), nuevas, kf)
    IN [cola |-> m, archivo |-> IF m # <<>> THEN ArchivoCon(m) ELSE SinArchivo]

\* ArchivoTras that unlinks the file however the workflow ended
ArchivoTras_SiempreBorra(f, ok) == SinArchivo

\* the file after the try of a workflow: unlinked when the workflow
\* returned, left as it is when it raised
ArchivoTras(f, ok) == IF ok THEN SinArchivo ELSE f

InitPipeline ==
    /\ pc = "persist"
    /\ MotorParado
    /\ llamadas = <<>>
    /\ DiffParado
    /\ MergeParado
    /\ siniestros = <<>>
    /\ skip_generali \in BOOLEAN
    /\ lote \in [Aseguradoras -> Lotes]
    /\ archivo \in {[a \in Aseguradoras |-> SinArchivo],
                     [a \in Aseguradoras |-> ArchivoCon(<<NotaDe("1", "p")>>)]}
    /\ cola = [a \in Aseguradoras |-> <<>>]
    /\ portal = [a \in Aseguradoras |-> FALSE]
    /\ enviadas = [a \in Aseguradoras |-> <<>>]
    /\ resultado = [a \in Aseguradoras |-> "pendiente"]

\* lines 533 to 544: the three calls of _merge_and_persist_pending, the one
\* of Generali left out under --skip-generali
PersistirPendientes ==
    /\ pc = "persist"
    /\ LET mp == [a \in Aseguradoras |->
                    IF a = "generali" /\ skip_generali
                    THEN [cola |-> <<>>, archivo |-> archivo[a]]
                    ELSE MergeAndPersistPending(archivo[a], lote[a], <<"codigo">>)]
       IN /\ cola' = [a \in Aseguradoras |-> mp[a].cola]
          /\ archivo' = [a \in Aseguradoras |-> mp[a].archivo]
    /\ pc' = "generali"
    /\ UNCHANGED <<skip_generali, lote, portal, enviadas, resultado>>
    /\ UNCHANGED motor
    /\ UNCHANGED <<llamadas, diff, merge, siniestros>>

\* the try around the workflow of insurer a: it submits the first j notes
\* of the queue and returns (ok, all of them submitted) or raises; the
\* except logs and goes back to Peritoline
Workflow(a, sig) ==
    \E j \in 0..Len(cola[a]), ok \in BOOLEAN :
        /\ ok => j = Len(cola[a])
        /\ enviadas' = [enviadas EXCEPT ![a] = SubSeq(cola[a], 1, j)]
        /\ resultado' = [resultado EXCEPT ![a] = IF ok THEN "completado" ELSE "fallo"]
        /\ archivo' = [archivo EXCEPT ![a] = ArchivoTras(archivo[a], ok)]
        /\ pc' = sig

\* the insurer a is passed over: its queue is empty or its page is missing
SinWorkflow(a, sig) ==
    /\ resultado' = [resultado EXCEPT ![a] = IF cola[a] = <<>> THEN "vacio" ELSE "sin_portal"]
    /\ pc' = sig
    /\ UNCHANGED <<archivo, enviadas>>

\* lines 549 to 568
EjecutarGenerali ==
    /\ pc = "generali"
    /\ IF cola["generali"] # <<>>
       THEN Workflow("generali", "abrir_ama")
       ELSE SinWorkflow("generali", "abrir_ama")
    /\ UNCHANGED <<skip_generali, lote, cola, portal>>
    /\ UNCHANGED motor
    /\ UNCHANGED <<llamadas, diff, merge, siniestros>>

\* the try that opens the portal of insurer a from Peritoline: a page, or
\* none when Aseguradoras does not open or a step raises
AbrirPortal(a, sig) ==
    /\ IF cola[a] # <<>>
       THEN \E abierto \in BOOLEAN : portal' = [portal EXCEPT ![a] = abierto]
       ELSE portal' = portal
    /\ pc' = sig
    /\ UNCHANGED <<skip_generali, lote, archivo, cola, enviadas, resultado>>
    /\ UNCHANGED motor
    /\ UNCHANGED <<llamadas, diff, merge, siniestros>>

\* lines 570 to 596
AbrirAma == pc = "abrir_ama" /\ AbrirPortal("ama", "ama")

\* lines 598 to 608
EjecutarAma ==
    /\ pc = "ama"
    /\ IF cola["ama"] # <<>> /\ portal["ama"]
       THEN Workflow("ama", "abrir_epac")
       ELSE SinWorkflow("ama", "abrir_epac")
    /\ UNCHANGED <<skip_generali, lote, cola, portal>>
    /\ UNCHANGED motor
    /\ UNCHANGED <<llamadas, diff, merge, siniestros>>

\* lines 610 to 636
AbrirEpac == pc = "abrir_epac" /\ AbrirPortal("allianz", "epac")

\* lines 638 to 653
EjecutarEpac ==
    /\ pc = "epac"
    /\ IF cola["allianz"] # <<>> /\ portal["allianz"]
       THEN Workflow("allianz", "fin")
       ELSE SinWorkflow("allianz", "fin")
    /\ UNCHANGED <<skip_generali, lote, cola, portal>>
    /\ UNCHANGED motor
    /\ UNCHANGED <<llamadas, diff, merge, siniestros>>

NextPipeline ==
    \/ PersistirPendientes
    \/ EjecutarGenerali
    \/ AbrirAma
    \/ EjecutarAma
    \/ AbrirEpac
    \/ EjecutarEpac

SpecPipeline == InitPipeline /\ [][NextPipeline]_vars

\* ---------------------------------------------------------------------
\* scripts/extraer_teléfonos_epac.py: procesar_siniestro, called once for
\* each claim of the run
\* ---------------------------------------------------------------------
MaxSiniestros == 2

\* the steps inside the try that come before the extraction, and the one of
\* them that raises in a call ("ninguno": none does)
Pasos == {"busqueda", "ficha"}

FichasSiniestro == {OBSERVACIONES \o Movil1, TELEF1 \o Intl1, Sep}

\* the '+' numbers of the four lookups on text t
IntlFicha(t) == UNION {IntlDe(TextoLookup(k, t)) : k \in 1..4}

\* extraer_telefono on the record f: None when the text cannot be read
ExtraerTelefono(f, ok, lib, m) ==
    LET t == ObtenerTextoFicha(f, ok)
    IN IF t = <<>> THEN NULL ELSE ExtraerDesde(1, t, lib, m)

\* "OK" if telefono else "NO ENCONTRADO"
EstadoDe(tel) == IF tel # NULL /\ tel # <<>> THEN "OK" ELSE "NO ENCONTRADO"

\* RegistroDe without the except clause: the exception leaves the function
RegistroDe_SinExcept(n, falla, tel) ==
    IF falla # "ninguno"
    THEN [siniestro |-> n, telefono |-> NOTRIED, estado |-> "excepcion"]
    ELSE [siniestro |-> n, telefono |-> tel, estado |-> EstadoDe(tel)]

\* the dict procesar_siniestro returns for claim n: the one of the except
\* clause when a step raised, else the one built from the phone extracted
RegistroDe(n, falla, tel) ==
    IF falla # "ninguno"
    THEN [siniestro |-> n, telefono |-> NULL, estado |-> "ERROR", error |-> falla]
    ELSE [siniestro |-> n, telefono |-> tel, estado |-> EstadoDe(tel)]

InitSiniestros ==
    /\ pc = "siniestros"
    /\ MotorParado
    /\ llamadas = <<>>
    /\ DiffParado
    /\ MergeParado
    /\ PipelineParado
    /\ siniestros \in [1..MaxSiniestros ->
           {[ficha |-> f, falla |-> x, hecho |-> FALSE, extraido |-> NOTRIED,
             salida |-> [siniestro |-> 0, telefono |-> NOTRIED, estado |-> "pendiente"]] :
               f \in FichasSiniestro, x \in Pasos \cup {"ninguno"}}]

\* the call for the n-th claim, the ones before it having returned: the
\* steps up to the one that raises, the extraction when none does, and the
\* dict returned
ProcesarSiniestro(n) ==
    /\ pc = "siniestros"
    /\ ~siniestros[n].hecho
    /\ \A i \in 1..(n - 1) : siniestros[i].hecho
    /\ LET c == siniestros[n]
       IN IF c.falla # "ninguno"
          THEN /\ siniestros' = [siniestros EXCEPT ![n] =
                      [c EXCEPT !.hecho = TRUE, !.salida = RegistroDe(n, c.falla, NULL)]]
               /\ meta' = meta
          ELSE \E ok \in BOOLEAN :
                 \E m \in {ext @@ meta :
                              ext \in [(IF ok THEN IntlFicha(Strip(c.ficha)) ELSE {}) \ DOMAIN meta
                                          -> MetaOutcomes]} :
                    LET tel == ExtraerTelefono(c.ficha, ok, phonenumbers, m)
                    IN /\ siniestros' = [siniestros EXCEPT ![n] =
                              [c EXCEPT !.hecho = TRUE, !.extraido = tel,
                                        !.salida = RegistroDe(n, c.falla, tel)]]
                       /\ meta' = m
    /\ UNCHANGED <<pc, installed, phonenumbers, ficha, texto, res, seccion, telefono>>
    /\ UNCHANGED <<raw, norm, renorm, movil>>
    /\ UNCHANGED <<llamadas, diff, merge, pipeline>>

NextSiniestros == \E n \in 1..MaxSiniestros : ProcesarSiniestro(n)

SpecSiniestros == InitSiniestros /\ [][NextSiniestros]_vars

\* ---------------------------------------------------------------------
\* Properties of extraer_telefono (specification Spec)
\* ---------------------------------------------------------------------
AllDigits(s) == \A i \in 1..Len(s) : s[i] \in Digits

\* a 9-digit national number, or '+' and digits
EsNumero(s) ==
    /\ s # <<>>
    /\ IF s[1] = "+" THEN AllDigits(Tail(s)) ELSE AllDigits(s)

\* the k-th lookup ran and found its label
Real(k) == res[k] # NOTRIED /\ seccion[k] # NOTRIED /\ seccion[k] # NULL

\* the lookup of the k-th label, computed on its own
LookupDe(k) ==
    CASE k = 1 -> BuscarEnSeccion(texto, OBSERVACIONES, phonenumbers, meta)
      [] k = 2 -> BuscarEnSeccion(texto, DESCRIPCION, phonenumbers, meta)
      [] k = 3 -> BuscarCampoTelef(texto, TELEF1, phonenumbers, meta)
      [] k = 4 -> BuscarCampoTelef(texto, TELEF2, phonenumbers, meta)

\* what becomes of one candidate: "skip" (rejected by the normalizer or the
\* classifier, a parse error included), "accept", or "abort" (the library
\* raised something else)
Clase(c) ==
    LET t == NormalizarTelefono(c)
    IN IF t = NULL THEN "skip"
       ELSE IF t[1] # "+"
       THEN IF Len(t) = 9 /\ t[1] \in {"6", "7"} THEN "accept" ELSE "skip"
       ELSE CASE meta[t] = "Error" -> "abort"
              [] meta[t] \in {"MOBILE", "FIXED_LINE_OR_MOBILE"} -> "accept"
              [] OTHER -> "skip"

Indices(cs, clase) == {i \in 1..Len(cs) : Clase(cs[i]) = clase}

\* C1: the labels are tried in the order OBSERVACIONES MANUALES, DESCRIPCION,
\* TELEF-1, TELEF-2; a label is tried only when every label before it
\* yielded nothing, the value returned is the value of the first label that
\* yields a number, and it is None only when all four yielded nothing.
C1_PriorityOrder ==
    (pc = "done" /\ texto # NOTRIED /\ texto # <<>>) =>
        LET hit == {k \in 1..4 : res[k] # NOTRIED /\ res[k] # NULL}
        IN /\ res[1] # NOTRIED
           /\ \A k \in 1..4 : res[k] # NOTRIED => res[k] = LookupDe(k)
           /\ \A k \in 2..4 : res[k] # NOTRIED => res[k - 1] = NULL
           /\ IF hit = {}
              THEN telefono = NULL /\ \A k \in 1..4 : res[k] = NULL
              ELSE \E k \in hit :
                      /\ telefono = res[k]
                      /\ \A j \in 1..4 : j < k => res[j] = NULL
                      /\ \A j \in 1..4 : j > k => res[j] = NOTRIED

\* a number found under OBSERVACIONES MANUALES is returned while TELEF-1
\* holds another acceptable mobile
C1_Witness ==
    /\ pc = "done"
    /\ telefono # NULL
    /\ res[1] = telefono
    /\ LET v == ValorCampo(texto, TELEF1)
       IN /\ v # NULL
          /\ NormalizarTelefono(v) # NULL
          /\ NormalizarTelefono(v) # telefono
          /\ Len(NormalizarTelefono(v)) = 9
          /\ NormalizarTelefono(v)[1] \in {"6", "7"}

C3_NeverRaises ==
    /\ telefono # RAISE
    /\ \A k \in 1..4 : res[k] # RAISE
    /\ pc = "done" => (telefono = NULL \/ EsNumero(telefono))

\* the library raised inside a lookup and the call returned all the same
C3_Witness ==
    /\ pc = "done"
    /\ \E k \in 1..4 :
          /\ Real(k)
          /\ ExtraerNumeroTelefono(seccion[k], phonenumbers, meta) = RAISE

\* ---------------------------------------------------------------------
\* Properties of _normalizar_telefono (specification SpecNorm)
\* ---------------------------------------------------------------------
\* C4: normalize is idempotent: a result that is not None normalizes to
\* itself.
C4_NormalizeIdempotent ==
    (pc = "renormalized" /\ norm # NULL) => renorm = norm

\* '+' followed by 8 to 15 digits
EsInternacional(s) ==
    /\ s[1] = "+"
    /\ AllDigits(Tail(s))
    /\ MinIntl <= Len(s) - 1
    /\ Len(s) - 1 <= MaxIntl

\* C5: a result that is not None is 9 digits without a leading
\* zero, or '+' followed by 8 to 15 digits.
C5_SinCeroInicial ==
    (pc = "normalized" /\ norm # NULL) =>
        \/ Len(norm) = 9 /\ AllDigits(norm) /\ norm[1] # "0"
        \/ EsInternacional(norm)

\* ---------------------------------------------------------------------
\* Properties of the classifier and of the lookups (specification Spec)
\* ---------------------------------------------------------------------
\* C6: a value returned is the normal form of a candidate of a text that
\* was tokenized, and the classifier accepted it: 9 digits beginning with 6
\* or 7, or a '+' number the library reports valid and MOBILE or
\* FIXED_LINE_OR_MOBILE; a landline (8, 9) is never returned.
C6_OnlyAcceptedReturned ==
    (pc = "done" /\ telefono # NULL) =>
        /\ \E k \in 1..4 :
              /\ Real(k)
              /\ LET cs == FindIter(seccion[k])
                 IN \E i \in 1..Len(cs) : NormalizarTelefono(cs[i]) = telefono
        /\ IF telefono[1] = "+"
           THEN /\ phonenumbers = "module"
                /\ meta[telefono] \in {"MOBILE", "FIXED_LINE_OR_MOBILE"}
           ELSE /\ Len(telefono) = 9
                /\ AllDigits(telefono)
                /\ telefono[1] \in {"6", "7"}

\* a landline stood before the number that was returned
C6_Witness ==
    /\ pc = "done"
    /\ telefono # NULL
    /\ \E k \in 1..4 :
          /\ Real(k)
          /\ res[k] = telefono
          /\ LET cs == FindIter(seccion[k])
             IN \E i \in 1..Len(cs) :
                   /\ NormalizarTelefono(cs[i]) # NULL
                   /\ Len(NormalizarTelefono(cs[i])) = 9
                   /\ NormalizarTelefono(cs[i])[1] \in {"8", "9"}

\* the result of the k-th lookup when every exception of the library only
\* rejects the candidate it was raised for
SoloCandidato(k) ==
    LET cs == FindIter(seccion[k])
        acc == Indices(cs, "accept")
    IN IF acc = {} THEN NULL ELSE NormalizarTelefono(cs[SetMin(acc)])

\* C7 as stated: whatever the library raises, only the candidate is
\* rejected, and the candidates after it are still evaluated.
C7_SoloElCandidato ==
    pc = "done" => \A k \in 1..4 : Real(k) => res[k] = SoloCandidato(k)

\* C7: a parse error of the library rejects only its candidate and the scan
\* goes on; any other exception ends the lookup of that label with no
\* result, the labels after it are still tried, and extraer_telefono does
\* not raise.
C7_ExceptionHandling ==
    pc = "done" =>
        /\ telefono # RAISE
        /\ \A k \in 1..4 : Real(k) =>
              LET cs == FindIter(seccion[k])
                  first == Indices(cs, "accept") \cup Indices(cs, "abort")
              IN IF first = {} THEN res[k] = NULL
                 ELSE IF Clase(cs[SetMin(first)]) = "abort"
                 THEN res[k] = NULL /\ (k < 4 => res[k + 1] # NOTRIED)
                 ELSE res[k] = NormalizarTelefono(cs[SetMin(first)])

\* the library raised on the first candidate of a label, a mobile stood
\* after it, the label gave nothing and the next label was tried
C7_Witness ==
    /\ pc = "done"
    /\ \E k \in 1..3 :
          /\ Real(k)
          /\ LET cs == FindIter(seccion[k])
             IN /\ Len(cs) >= 2
                /\ Clase(cs[1]) = "abort"
                /\ Clase(cs[2]) = "accept"
          /\ res[k] = NULL
          /\ res[k + 1] # NOTRIED

\* C8: when the library is not available the engine still runs, with
\* phonenumbers = None and every '+' number accepted.
C8_FallbackWhenUnavailable ==
    (~installed /\ pc # "import") => (pc # "import_error" /\ phonenumbers = "None")

Ocurrencias(t, lit) == {i \in 1..Len(t) : t[i] = lit[1] /\ MatchLit(t, i, lit, FALSE)}

IsPrefix(s, t) == Len(s) <= Len(t) /\ s = SubSeq(t, 1, Len(s))

\* C9: in section mode the text tokenized starts right after the last
\* occurrence of the label, and the result of the label is the result of
\* that text alone.
C9_LastOccurrence ==
    pc = "done" =>
        \A k \in 1..2 : res[k] # NOTRIED =>
            LET occ == Ocurrencias(texto, Etiquetas[k])
            IN IF occ = {} THEN seccion[k] = NULL /\ res[k] = NULL
               ELSE /\ \E p \in occ :
                          /\ \A q \in occ : q <= p
                          /\ IsPrefix(seccion[k], DropN(texto, p + Len(Etiquetas[k]) - 1))
                    /\ res[k] = ExceptNone(ExtraerNumeroTelefono(seccion[k], phonenumbers, meta))

\* the label occurs twice, a mobile follows the first occurrence, and the
\* label yields nothing
C9_Witness ==
    /\ pc = "done"
    /\ \E k \in 1..2 :
          LET occ == Ocurrencias(texto, Etiquetas[k])
          IN /\ Cardinality(occ) >= 2
             /\ res[k] = NULL
             /\ LET cs == FindIter(SubSeq(texto, SetMin(occ) + Len(Etiquetas[k]), SetMax(occ) - 1))
                IN \E i \in 1..Len(cs) :
                      /\ NormalizarTelefono(cs[i]) # NULL
                      /\ Len(NormalizarTelefono(cs[i])) = 9
                      /\ NormalizarTelefono(cs[i])[1] \in {"6", "7"}

\* the text after the last occurrence of the k-th label
Despues(k) ==
    DropN(texto, SetMax(Ocurrencias(texto, Etiquetas[k])) + Len(Etiquetas[k]) - 1)

\* where one of the three cut delimiters starts in t
Cortes(t) ==
    {i \in 1..Len(t) : CutDashesAt(t, i) \/ CutSiniestrosAt(t, i) \/ CutNumeroAt(t, i)}

\* C10: the section tokenized is the text after the label, cut at the
\* earliest start of a cut delimiter or at 400 characters, whichever comes
\* first.
C10_SectionBounds ==
    pc = "done" =>
        \A k \in 1..2 : Real(k) =>
            LET after == Despues(k)
                cuts == Cortes(after)
                lim == IF cuts = {} THEN Len(after) ELSE SetMin(cuts) - 1
            IN seccion[k] = SubSeq(after, 1, IF lim < MaxSeccion THEN lim ELSE MaxSeccion)

\* two delimiters of different kinds follow the label, the section stops at
\* the first one and a number after it is left out
C10_Witness ==
    /\ pc = "done"
    /\ \E k \in 1..2 :
          /\ Real(k)
          /\ LET after == Despues(k)
                 s == CutStarts(after)
             IN /\ Cardinality({n \in 1..3 : s[n] # 0}) >= 2
                /\ s[1] # 0
                /\ \E n \in 2..3 : s[n] # 0 /\ s[n] < s[1]
                /\ Len(seccion[k]) < SetMin(Cortes(after))
                /\ FindIter(DropN(after, Len(seccion[k]))) # <<>>

\* ---------------------------------------------------------------------
\* The branches of _normalizar_telefono (specification SpecNorm)
\* ---------------------------------------------------------------------
\* the first digit of a Spanish number: 6, 7 (mobile), 8, 9 (landline)
Espanol == {"6", "7", "8", "9"}

\* the trimmed raw value starts with p
Empieza(p) == StartsWith(Strip(raw), p)

\* C11: a value that starts with '00' followed by 9 digits of which the first
\* is 6, 7, 8 or 9 normalizes to those 9 digits, without '+'.
C11_DobleCeroNacional ==
    (norm # NOTRIED /\ Empieza(<<"0", "0">>)) =>
        LET d == OnlyDigits(raw)
        IN (Len(d) = 11 /\ d[3] \in Espanol) => norm = SubSeq(d, 3, 11)

\* '00' and a landline with separators gave the 9 digits of the landline
C11_Witness ==
    /\ norm # NOTRIED
    /\ Empieza(<<"0", "0">>)
    /\ Len(OnlyDigits(raw)) = 11
    /\ Len(raw) > 11
    /\ OnlyDigits(raw)[3] \in {"8", "9"}
    /\ norm = SubSeq(OnlyDigits(raw), 3, 11)

\* the digits after the '00' of the raw value
RestoDe == DropN(OnlyDigits(raw), 2)

\* C12 as stated: a value that starts with '00' whose rest is not 9 digits
\* beginning with 6-9 normalizes to '+' and the rest, for every rest.
C12_SiempreInternacional ==
    (norm # NOTRIED /\ Empieza(<<"0", "0">>)) =>
        (~(Len(RestoDe) = 9 /\ RestoDe[1] \in Espanol) => norm = <<"+">> \o RestoDe)

\* C12: a value that starts with '00' whose rest is not 9 digits beginning
\* with 6-9 normalizes to '+' and the rest when the rest has 8 to 15 digits,
\* and to None otherwise.
C12_InternacionalAcotado ==
    (norm # NOTRIED /\ Empieza(<<"0", "0">>)) =>
        (~(Len(RestoDe) = 9 /\ RestoDe[1] \in Espanol) =>
            norm = IF MinIntl <= Len(RestoDe) /\ Len(RestoDe) <= MaxIntl
                   THEN <<"+">> \o RestoDe ELSE NULL)

\* a rest of 9 digits that is not Spanish became a '+' number
C12_Witness ==
    /\ norm # NOTRIED
    /\ Empieza(<<"0", "0">>)
    /\ Len(RestoDe) = 9
    /\ RestoDe[1] \notin Espanol
    /\ norm = <<"+">> \o RestoDe

\* C13 as stated: '0034' and a 9-digit Spanish number is reduced to the 9
\* digits, '+34' and the same number is kept as '+34...'.
C13_CeroCero34Reducido ==
    norm # NOTRIED =>
        LET d == OnlyDigits(raw)
        IN /\ (Empieza(<<"0", "0", "3", "4">>) /\ Len(d) = 13 /\ d[5] \in Espanol)
                 => norm = SubSeq(d, 5, 13)
           /\ (Empieza(<<"+", "3", "4">>) /\ Len(d) = 11 /\ d[3] \in Espanol)
                 => norm = <<"+">> \o d

\* C13: '0034' and a 9-digit Spanish number is not reduced: it normalizes to
\* '+34' and the 9 digits, as the same number written with '+34' does; the
\* '00' prefix right in front of the 9 digits is the one that is reduced.
C13_PrefijosEspanoles ==
    norm # NOTRIED =>
        LET d == OnlyDigits(raw)
        IN /\ (Empieza(<<"0", "0", "3", "4">>) /\ Len(d) = 13 /\ d[5] \in Espanol)
                 => norm = <<"+">> \o SubSeq(d, 3, 13)
           /\ (Empieza(<<"+", "3", "4">>) /\ Len(d) = 11 /\ d[3] \in Espanol)
                 => norm = <<"+">> \o d
           /\ (Empieza(<<"0", "0">>) /\ Len(d) = 11 /\ d[3] \in Espanol)
                 => norm = SubSeq(d, 3, 11)

\* '0034' and a Spanish mobile gave '+34' and the mobile
C13_Witness ==
    /\ norm # NOTRIED
    /\ Empieza(<<"0", "0", "3", "4">>)
    /\ Len(OnlyDigits(raw)) = 13
    /\ OnlyDigits(raw)[5] \in {"6", "7"}
    /\ norm = <<"+", "3", "4">> \o SubSeq(OnlyDigits(raw), 5, 13)

\* C14: a value that starts with '+' normalizes to '+' and all the digits
\* after it when they are 8 to 15, and to None otherwise; '+34' is kept.
C14_ConMas ==
    (norm # NOTRIED /\ Empieza(<<"+">>)) =>
        LET d == OnlyDigits(raw)
        IN norm = IF MinIntl <= Len(d) /\ Len(d) <= MaxIntl THEN <<"+">> \o d ELSE NULL

\* '+34' and a Spanish number with separators kept its '+34', and the value
\* has more characters than the result
C14_Witness ==
    /\ norm # NOTRIED
    /\ Empieza(<<"+", "3", "4">>)
    /\ Len(OnlyDigits(raw)) = 11
    /\ OnlyDigits(raw)[3] \in Espanol
    /\ Len(raw) > 12
    /\ norm = <<"+">> \o OnlyDigits(raw)

\* C15: a value with neither a leading '+' nor a leading '00' goes through
\* the decision list on its digits: 10 digits 0[6-9]... give the last 9,
\* 11 digits 34[6-9]... give the last 9, 9 digits give themselves, 8 to 15
\* digits give '+' and the digits, anything else gives None.
C15_ListaDecision ==
    (norm # NOTRIED /\ ~Empieza(<<"+">>) /\ ~Empieza(<<"0", "0">>)) =>
        LET d == OnlyDigits(raw)
            n == Len(d)
        IN norm = IF n = 10 /\ d[1] = "0" /\ d[2] \in Espanol THEN SubSeq(d, 2, 10)
                  ELSE IF n = 11 /\ d[1] = "3" /\ d[2] = "4" /\ d[3] \in Espanol
                  THEN SubSeq(d, 3, 11)
                  ELSE IF n = 9 THEN d
                  ELSE IF MinIntl <= n /\ n <= MaxIntl THEN <<"+">> \o d
                  ELSE NULL

\* a bare 34 and a Spanish number with separators gave the 9 digits
C15_Witness ==
    /\ norm # NOTRIED
    /\ ~Empieza(<<"+">>)
    /\ ~Empieza(<<"0", "0">>)
    /\ Len(OnlyDigits(raw)) = 11
    /\ Len(raw) > 11
    /\ StartsWith(OnlyDigits(raw), <<"3", "4">>)
    /\ norm = SubSeq(OnlyDigits(raw), 3, 11)
    /\ norm[1] \in Espanol

\* ---------------------------------------------------------------------
\* The record "TELEF-2: 91234567" (specification SpecCampos)
\* ---------------------------------------------------------------------
MasOcho == <<"+", "9", "1", "2", "3", "4", "5", "6", "7">>

\* C16 as stated: for the field value 91234567 the normalizer gives None,
\* so the field yields None.
C16_NormalizadorRechaza ==
    (pc = "done" /\ texto = Escenario2) =>
        /\ NormalizarTelefono(seccion[4]) = NULL
        /\ res[4] = NULL

\* C16: for the field value 91234567 the normalizer gives +91234567 (8
\* digits are within the international bounds); the field yields None
\* exactly when the classifier does not accept +91234567, and +91234567
\* otherwise.
C16_ClasificadorDecide ==
    (pc = "done" /\ texto = Escenario2) =>
        /\ seccion[4] = Tail(Ocho)
        /\ NormalizarTelefono(seccion[4]) = MasOcho
        /\ res[4] = IF meta[MasOcho] \in {"MOBILE", "FIXED_LINE_OR_MOBILE"}
                    THEN MasOcho ELSE NULL
        /\ telefono = res[4]

\* the library reported +91234567 invalid and the field yielded None
C16_Witness ==
    /\ pc = "done"
    /\ texto = Escenario2
    /\ MasOcho \in DOMAIN meta
    /\ meta[MasOcho] = "Invalid"
    /\ res[4] = NULL
    /\ telefono = NULL

\* ---------------------------------------------------------------------
\* _es_movil on the results of _normalizar_telefono (specification SpecNorm)
\* ---------------------------------------------------------------------
\* C17: a number without '+' is a mobile exactly when it has 9 characters
\* and begins with 6 or 7, and the library is not asked about it.
C17_NacionalSinLibreria ==
    (pc = "classified" /\ norm[1] # "+") =>
        /\ movil \in {"True", "False"}
        /\ movil = "True" <=> (Len(norm) = 9 /\ norm[1] \in {"6", "7"})
        /\ norm \notin DOMAIN meta

\* a landline of 9 digits was classified, and rejected
C17_Witness ==
    /\ pc = "classified"
    /\ Len(norm) = 9
    /\ norm[1] \in {"8", "9"}
    /\ movil = "False"

\* C18: with the library loaded, a '+' number is a mobile exactly when the
\* library parses it, reports it valid and gives the type MOBILE or
\* FIXED_LINE_OR_MOBILE; a parse error, an invalid number and any other type
\* give false.
C18_InternacionalConLibreria ==
    (pc = "classified" /\ norm[1] = "+" /\ phonenumbers = "module") =>
        /\ norm \in DOMAIN meta
        /\ movil = "True" <=> meta[norm] \in {"MOBILE", "FIXED_LINE_OR_MOBILE"}
        /\ meta[norm] \in {"ParseError", "Invalid", "FIXED_LINE"} => movil = "False"

\* the library gave FIXED_LINE_OR_MOBILE for a '+' number, which was accepted
C18_Witness ==
    /\ pc = "classified"
    /\ norm[1] = "+"
    /\ norm \in DOMAIN meta
    /\ meta[norm] = "FIXED_LINE_OR_MOBILE"
    /\ movil = "True"

\* ---------------------------------------------------------------------
\* The candidates of the tokenizer (specification Spec)
\* ---------------------------------------------------------------------
\* c is: an optional '+' or '00', then whitespace if any, then a digit, then
\* 6 or more characters of class, the last one a digit; gap tells whether
\* whitespace may stand between the prefix and the first digit
Forma(c, class, gap) ==
    \E p \in {0, 1, 2} :
        /\ p = 1 => c[1] = "+"
        /\ p = 2 => Len(c) >= 2 /\ c[1] = "0" /\ c[2] = "0"
        /\ LET d == IF gap THEN RunEnd(c, p + 1, WS) ELSE p + 1
           IN /\ d <= Len(c)
              /\ c[d] \in Digits
              /\ Len(c) - d >= MinInner + 1
              /\ \A q \in (d + 1)..Len(c) : c[q] \in class
              /\ c[Len(c)] \in Digits

\* the class as the claim words it: digits, the space and ( ) . , -
ClaseEstricta == Digits \cup {" ", "(", ")", ".", ",", "-"}

\* C19 as stated: every candidate is an optional '+' or '00' followed
\* directly by a digit, then 6 or more characters among digits, space,
\* ( ) . , - and ends in a digit.
C19_FormaEstricta ==
    pc = "done" =>
        \A k \in 1..4 : Real(k) =>
            LET cs == FindIter(seccion[k])
            IN \A q \in 1..Len(cs) : Forma(cs[q], ClaseEstricta, FALSE)

\* no substring of t has the shape of a candidate
SinCandidato(t) ==
    \A i \in 1..Len(t) : t[i] \in Digits \cup WS \cup {"+"} =>
        \A j \in (i + MinInner + 1)..Len(t) : ~Forma(SubSeq(t, i, j), PhoneClass, TRUE)

\* C19: the candidates come left to right and do not overlap; every
\* candidate is an optional '+' or '00', then optional whitespace, then a
\* digit, then 6 or more characters among digits, whitespace, ( ) . , - and
\* ends in a digit (8 characters at least); a text with no such substring
\* gives the empty sequence.
C19_CandidatosOrdenados ==
    pc = "done" =>
        \A k \in 1..4 : Real(k) =>
            LET t == seccion[k]
                sp == FindSpans(t)
                cs == FindIter(t)
            IN /\ Len(cs) = Len(sp)
               /\ \A q \in 1..Len(sp) :
                     /\ 1 <= sp[q][1] /\ sp[q][2] <= Len(t)
                     /\ cs[q] = SubSeq(t, sp[q][1], sp[q][2])
                     /\ Len(cs[q]) >= MinInner + 2
                     /\ Forma(cs[q], PhoneClass, TRUE)
                     /\ q > 1 => sp[q - 1][2] < sp[q][1]
               /\ SinCandidato(t) <=> cs = <<>>

\* a text gave three candidates one after the other, the first of them
\* beginning with a space
C19_Witness ==
    /\ pc = "done"
    /\ \E k \in 1..4 :
          /\ Real(k)
          /\ LET sp == FindSpans(seccion[k])
             IN /\ Len(sp) >= 3
                /\ seccion[k][sp[1][1]] = " "
                /\ sp[1][2] < sp[2][1]
                /\ sp[2][2] < sp[3][1]

\* ---------------------------------------------------------------------
\* Field mode (specification SpecCampos)
\* ---------------------------------------------------------------------
\* where the k-th label (3, 4), without its colon, is followed by a
\* phone-shaped value
Valoradas(k) ==
    {i \in 1..Len(texto) : CampoValorAt(texto, CampoBase(Etiquetas[k]), i) # 0}

\* the phone-shaped value that follows the label at index i
ValorEn(k, i) ==
    LET v == CampoValorAt(texto, CampoBase(Etiquetas[k]), i)
    IN Strip(SubSeq(texto, v, RunEnd(texto, v + 1, PhoneClass) - 1))

\* C20: a field takes the value of the first occurrence of its label that a
\* phone-shaped value follows, and only that one: the result of the field is
\* the result of that value, whatever follows a later occurrence.
C20_PrimeraOcurrencia ==
    pc = "done" =>
        \A k \in 3..4 : res[k] # NOTRIED =>
            LET hits == Valoradas(k)
            IN IF hits = {} THEN seccion[k] = NULL /\ res[k] = NULL
               ELSE /\ seccion[k] = ValorEn(k, SetMin(hits))
                    /\ res[k] = ExceptNone(ExtraerNumeroTelefono(seccion[k], phonenumbers, meta))

\* the label stands twice, a landline follows the first occurrence and a
\* mobile the second, and the field yields nothing
C20_Witness ==
    /\ pc = "done"
    /\ \E k \in 3..4 :
          /\ res[k] = NULL
          /\ Cardinality(Valoradas(k)) >= 2
          /\ LET ult == NormalizarTelefono(ValorEn(k, SetMax(Valoradas(k))))
             IN ult # NULL /\ Len(ult) = 9 /\ ult[1] \in {"6", "7"}

\* ---------------------------------------------------------------------
\* Records without labels (specification SpecCampos)
\* ---------------------------------------------------------------------
\* the k-th label as re.search and rfind look for it: a section label as it
\* is written, a field label without its colon and in any letter case
Presente(k) ==
    IF k <= 2 THEN Ocurrencias(texto, Etiquetas[k]) # {}
    ELSE \E i \in 1..Len(texto) : MatchLit(texto, i, CampoBase(Etiquetas[k]), TRUE)

\* C21 as stated: when none of the four labels, as they are written, occurs
\* in the text, every lookup gives no match and the call returns None.
C21_SinEtiquetas ==
    (pc = "done" /\ texto # NOTRIED /\ \A k \in 1..4 : Ocurrencias(texto, Etiquetas[k]) = {}) =>
        /\ \A k \in 1..4 : res[k] \in {NULL, NOTRIED}
        /\ telefono = NULL

\* C21: a lookup whose label is absent gives no match and no error, and
\* when all four are absent the call returns None; a field label is absent
\* when it occurs neither with nor without its colon, in any letter case.
C21_EtiquetasAusentes ==
    /\ \A k \in 1..4 : (res[k] # NOTRIED /\ ~Presente(k)) =>
           seccion[k] = NULL /\ res[k] = NULL
    /\ (pc = "done" /\ texto # NOTRIED /\ \A k \in 1..4 : ~Presente(k)) =>
           /\ texto # <<>> => \A k \in 1..4 : res[k] = NULL
           /\ telefono = NULL

\* a text that holds a mobile and no label went through the four lookups
C21_Witness ==
    /\ pc = "done"
    /\ \A k \in 1..4 : ~Presente(k) /\ res[k] = NULL /\ seccion[k] = NULL
    /\ telefono = NULL
    /\ ExtraerNumeroTelefono(texto, phonenumbers, meta) = Tail(Movil1)

\* ---------------------------------------------------------------------
\* Calls side by side (specification SpecLlamadas)
\* ---------------------------------------------------------------------
\* what the calls have in common does not move under a step, but for the
\* new answers of the library, and one call at most moves
NadaAjeno ==
    /\ phonenumbers' = phonenumbers
    /\ \A n \in DOMAIN meta : n \in DOMAIN meta' /\ meta'[n] = meta[n]
    /\ \A p \in Llamadas : llamadas'[p].texto = llamadas[p].texto
    /\ \E p \in Llamadas : \A q \in Llamadas \ {p} : llamadas'[q] = llamadas[q]

\* every lookup a call has run, and the value it returned, is what the
\* lookups give on the text of that call alone
ComoSola(ll, lib, m) ==
    \A p \in Llamadas :
        /\ \A k \in 1..4 : ll[p].res[k] # NOTRIED =>
               ll[p].res[k] = Lookup(k, ll[p].texto, lib, m)
        /\ ll[p].sig = 5 => ll[p].telefono = ExtraerDesde(1, ll[p].texto, lib, m)
        /\ \A q \in Llamadas :
               (ll[p].sig = 5 /\ ll[q].sig = 5 /\ ll[p].texto = ll[q].texto) =>
                   ll[p].telefono = ll[q].telefono

C24_ValorEntero ==
    pc = "done" =>
        \A k \in 3..4 : (res[k] # NOTRIED /\ seccion[k] # NULL) =>
            LET n == NormalizarTelefono(seccion[k])
            IN IF n = NULL THEN res[k] = NULL
               ELSE IF n[1] # "+"
               THEN res[k] = IF Len(n) = 9 /\ n[1] \in {"6", "7"} THEN n ELSE NULL
               ELSE /\ n \in DOMAIN meta
                    /\ res[k] = IF meta[n] \in {"MOBILE", "FIXED_LINE_OR_MOBILE"}
                                THEN n ELSE NULL

\* C24: the value of a field goes through the tokenizer like a section. It
\* holds one candidate at most, which ends at the last digit of the value
\* and holds all its digits; the result of the field is normalize(candidate)
\* when the classifier accepts it and None otherwise, also when
\* normalize(value) is another number.
C24_ValorTokenizado ==
    pc = "done" =>
        \A k \in 3..4 : (res[k] # NOTRIED /\ seccion[k] # NULL) =>
            LET cs == FindIter(seccion[k])
            IN /\ Len(cs) <= 1
               /\ cs = <<>> => res[k] = NULL
               /\ cs # <<>> =>
                     /\ OnlyDigits(cs[1]) = OnlyDigits(seccion[k])
                     /\ res[k] = IF Clase(cs[1]) = "accept"
                                 THEN NormalizarTelefono(cs[1]) ELSE NULL

\* the value "+(34) 612345678" gave 612345678, the number of its candidate
\* "34) 612345678", and not +34612345678
C24_Witness ==
    /\ pc = "done"
    /\ seccion[3] = Tail(MasParen)
    /\ NormalizarTelefono(seccion[3]) = <<"+", "3", "4">> \o Tail(Movil1)
    /\ res[3] = Tail(Movil1)
    /\ telefono = res[3]

\* ---------------------------------------------------------------------
\* compute_contact_changes (specification SpecDiff)
\* ---------------------------------------------------------------------
SinMarca(rows) == [i \in 1..Len(rows) |-> [rows[i] EXCEPT !.marca = "ninguna"]]

\* the codigo of row stands in the previous report
Estaba(row) == \E i \in 1..Len(previous) : previous[i].codigo = row.codigo

\* the last row of the previous report with the codigo of row
Previa(row) ==
    previous[SetMax({i \in 1..Len(previous) : previous[i].codigo = row.codigo})]

\* C25 as stated: the rows returned are the current rows with a codigo that
\* are SI now and were not SI before (or were absent), or were SI already
\* and have a visita added or changed to another value that is not empty.
C25_NoEraSi ==
    pc = "compared" =>
        SinMarca(cambios) = SelectSeq(SinMarca(current), LAMBDA row :
            /\ row.codigo # ""
            /\ row.contacto = "SI"
            /\ \/ ~Estaba(row)
               \/ Previa(row).contacto # "SI"
               \/ /\ Previa(row).contacto = "SI"
                  /\ row.visita # Previa(row).visita
                  /\ row.visita # "")

\* C25: the rows returned are, in their order, the current rows with a
\* codigo that are SI now and whose codigo was absent from the previous
\* report, or was NO in its last previous row, or whose visita is not empty
\* and differs from the one of that row; a row that is not SI is never
\* returned.
C25_EraNo ==
    pc = "compared" =>
        /\ SinMarca(cambios) = SelectSeq(SinMarca(current), LAMBDA row :
               /\ row.codigo # ""
               /\ row.contacto = "SI"
               /\ \/ ~Estaba(row)
                  \/ Previa(row).contacto = "NO"
                  \/ row.visita # Previa(row).visita /\ row.visita # "")
        /\ \A j \in 1..Len(cambios) : cambios[j].contacto = "SI"

\* a row that is SI now and was blank before is left out, and another one
\* is returned for its visita
C25_Witness ==
    /\ pc = "compared"
    /\ Len(cambios) = 1
    /\ cambios[1].marca = "cambio_visita"
    /\ \E i \in 1..Len(current) :
          /\ current[i].contacto = "SI"
          /\ Estaba(current[i])
          /\ Previa(current[i]).contacto = ""
          /\ current[i].marca = "ninguna"

\* ---------------------------------------------------------------------
\* _merge_pending_notes (specification SpecMerge)
\* ---------------------------------------------------------------------
Claves(notas) == {Clave(notas[i], key_fields) : i \in 1..Len(notas)}

Rango(notas) == {notas[i] : i \in 1..Len(notas)}

\* a is b with some of its elements left out
RECURSIVE EsSubsecuencia(_, _)
EsSubsecuencia(a, b) ==
    IF a = <<>> THEN TRUE
    ELSE IF b = <<>> THEN FALSE
    ELSE IF Head(a) = Head(b) THEN EsSubsecuencia(Tail(a), Tail(b))
    ELSE EsSubsecuencia(a, Tail(b))

\* C26: the list returned holds one note per key at most and every key of
\* either input; a key that stands in new_notes keeps a new note; the new
\* notes kept come first, then the pending notes kept, both in the order
\* they had.
C26_NuevasPrimero ==
    pc = "merged" =>
        /\ \A i, j \in 1..Len(merged) :
               i # j => Clave(merged[i], key_fields) # Clave(merged[j], key_fields)
        /\ Claves(merged) = Claves(new_notes) \cup Claves(pending)
        /\ \A j \in 1..Len(merged) :
               Clave(merged[j], key_fields) \in Claves(new_notes) =>
                   merged[j] \in Rango(new_notes)
        /\ \E k \in 0..Len(merged) :
               /\ EsSubsecuencia(SubSeq(merged, 1, k), new_notes)
               /\ EsSubsecuencia(SubSeq(merged, k + 1, Len(merged)), pending)

\* two new notes have the key of a pending one: the first new note is kept,
\* and a pending note with another key after it
C26_Witness ==
    /\ pc = "merged"
    /\ Len(new_notes) = 2
    /\ Len(pending) = 2
    /\ Clave(new_notes[1], key_fields) = Clave(new_notes[2], key_fields)
    /\ Clave(pending[1], key_fields) = Clave(new_notes[1], key_fields)
    /\ merged = <<new_notes[1], pending[2]>>


\* the stages of main that come after the workflow of insurer a
EtapasTras(a) ==
    IF a = "generali" THEN {"abrir_ama", "ama", "abrir_epac", "epac", "fin"}
    ELSE IF a = "ama" THEN {"abrir_epac", "epac", "fin"}
    ELSE {"fin"}

\* C27: once the pending notes are persisted, the pending file of an insurer
\* with a non-empty merged queue holds exactly that queue until its workflow
\* has returned without raising, and so it does before the workflow runs,
\* after the workflow raised (whatever it had submitted) and when the portal
\* did not open; the file of a non-empty queue is missing only after the
\* workflow went through the whole queue and returned; after a workflow that
\* raised or a portal that did not open the run is at a later stage, and at
\* the end every insurer has been attended.
C27_ArchivoHastaCompletar ==
    pc # "persist" =>
        /\ \A a \in Aseguradoras :
            /\ (cola[a] # <<>> /\ resultado[a] # "completado")
                   => archivo[a] = ArchivoCon(cola[a])
            /\ (cola[a] # <<>> /\ ~archivo[a].existe)
                   => (resultado[a] = "completado" /\ enviadas[a] = cola[a])
            /\ resultado[a] \in {"fallo", "sin_portal"} => pc \in EtapasTras(a)
        /\ pc = "fin" => \A a \in Aseguradoras : resultado[a] # "pendiente"

\* the workflow of Generali raised after submitting one of its two notes and
\* its file still holds both; the portal of AMA did not open and its file is
\* kept; the workflow of Allianz then ran to the end and its file is gone
C27_Witness ==
    /\ pc = "fin"
    /\ Len(cola["generali"]) = 2
    /\ resultado["generali"] = "fallo"
    /\ Len(enviadas["generali"]) = 1
    /\ archivo["generali"] = ArchivoCon(cola["generali"])
    /\ cola["ama"] # <<>>
    /\ resultado["ama"] = "sin_portal"
    /\ archivo["ama"] = ArchivoCon(cola["ama"])
    /\ resultado["allianz"] = "completado"
    /\ enviadas["allianz"] = cola["allianz"]
    /\ cola["allianz"] # <<>>
    /\ ~archivo["allianz"].existe


\* the characters PHONE_CANDIDATE_RE takes between digits
SepChars == PhoneClass \ Digits

\* the text that follows the last occurrence of the k-th label
Resto(k) == DropN(texto, RFind(texto, Etiquetas[k]) - 1 + Len(Etiquetas[k]))

\* the numbers written in t: first and last index of every maximal run of
\* at least nine digits
Numeros(t) ==
    {r \in {<<i, RunEnd(t, i, Digits) - 1>> :
                i \in {j \in 1..Len(t) : t[j] \in Digits /\ (j = 1 \/ t[j - 1] \notin Digits)}} :
        r[2] - r[1] + 1 >= NationalLen}

\* the pairs of numbers of t with separator characters only between them
Contiguos(t) ==
    {p \in Numeros(t) \X Numeros(t) :
        p[1][2] < p[2][1] /\ RunEnd(t, p[1][2] + 1, SepChars) = p[2][1]}

\* the two numbers of pair p are inside one candidate of chunk, which is
\* rejected when it holds more than 15 digits; a section whose only
\* candidate it is gives no number
EnUnCandidato(k, p) ==
    LET spans == FindSpans(seccion[k])
    IN \E n \in 1..Len(spans) :
          LET cand == SubSeq(seccion[k], spans[n][1], spans[n][2])
          IN /\ spans[n][1] <= p[1][1]
             /\ p[2][2] <= spans[n][2]
             /\ Len(OnlyDigits(cand)) > MaxIntl =>
                    /\ NormalizarTelefono(cand) = NULL
                    /\ Len(spans) = 1 => res[k] = NULL

Atraviesan(t, n) ==
    {i \in 1..n : /\ i <= Len(t)
                  /\ t[i] \in Digits
                  /\ (i = 1 \/ t[i - 1] \notin Digits)
                  /\ RunEnd(t, i, Digits) > n + 1}

\* C29: the text of a section that is tokenized is a prefix of the text
\* after the label of at most 400 characters, so no candidate ends past
\* offset 400, and the number of the section is the one that prefix gives:
\* what the document holds past the cap, the rest of a digit run that
\* straddles it included, has no part in it.
C29_TopeAntesDeTokenizar ==
    \A k \in 1..2 :
        (seccion[k] # NOTRIED /\ seccion[k] # NULL) =>
            LET spans == FindSpans(seccion[k])
            IN /\ Len(seccion[k]) <= MaxSeccion
               /\ seccion[k] = SubSeq(Resto(k), 1, Len(seccion[k]))
               /\ \A n \in 1..Len(spans) : spans[n][2] <= MaxSeccion
               /\ res[k] = ExceptNone(ExtraerNumeroTelefono(seccion[k], phonenumbers, meta))

\* the document holds 711222333 across offset 400 of a section; the chunk
\* ends with 71122233 and the section gave +71122233
C29_Witness ==
    \E k \in 1..2 :
        /\ seccion[k] # NOTRIED
        /\ Resto(k) = Largo \o Movil2
        /\ Atraviesan(Resto(k), MaxSeccion) # {}
        /\ seccion[k] = Largo \o SubSeq(Movil2, 1, 9)
        /\ res[k] = <<"+", "7", "1", "1", "2", "2", "2", "3", "3">>
        /\ telefono = res[k]


\* C30: every call of procesar_siniestro that has run returned a dict for
\* its claim, never an exception: its estado is 'OK' exactly when the
\* extraction ran and gave a non-empty phone, which the dict holds;
\* 'NO ENCONTRADO' exactly when the extraction ran and gave None; 'ERROR'
\* exactly when a step before the extraction raised, and then telefono is
\* None.
C30_UnRegistroPorSiniestro ==
    \A n \in DOMAIN siniestros :
        LET c == siniestros[n]
        IN c.hecho =>
            /\ c.salida.siniestro = n
            /\ c.salida.estado \in {"OK", "NO ENCONTRADO", "ERROR"}
            /\ c.salida.estado = "OK" <=>
                   (c.extraido # NOTRIED /\ c.extraido # NULL /\ c.extraido # <<>>)
            /\ c.salida.estado = "OK" => c.salida.telefono = c.extraido
            /\ c.salida.estado = "NO ENCONTRADO" <=> c.extraido = NULL
            /\ c.salida.estado = "NO ENCONTRADO" => c.salida.telefono = NULL
            /\ c.salida.estado = "ERROR" <=> c.falla # "ninguno"
            /\ c.salida.estado = "ERROR" => (c.salida.telefono = NULL /\ c.extraido = NOTRIED)

\* the first call ended in the except clause, and the second one, run after
\* it, found nothing because the library failed inside the extraction
C30_Witness ==
    /\ pc = "siniestros"
    /\ siniestros[1].hecho
    /\ siniestros[1].salida.estado = "ERROR"
    /\ siniestros[2].hecho
    /\ siniestros[2].ficha = TELEF1 \o Intl1
    /\ siniestros[2].salida.estado = "NO ENCONTRADO"
    /\ NormalizarTelefono(Intl1) \in DOMAIN meta
    /\ meta[NormalizarTelefono(Intl1)] = "Error"

====
